---- MODULE Spec2Model ----
(***************************************************************************)
(* Job / endpoint orchestration layer of the ML platform: the two record   *)
(* stores (DynamoDB tables), the compute launcher (ECS), the object store  *)
(* (S3) and the Lambda handlers that drive them, with the training unit    *)
(* that reports its own status.  Every handler invocation is a process;    *)
(* one action is one handler step up to and including one call of an       *)
(* external dependency, whose outcome (success, failure) is an input.      *)
(***************************************************************************)
EXTENDS Integers, FiniteSets, Sequences, TLC

(* ------------------------------ bounds --------------------------------- *)
\* number of submit-job invocations
MaxSubmits == 2
\* size of the space uuid4().hex[:8] draws from (16^8 in the program)
NumJobIds == 2

\* number of create-endpoint and delete-endpoint invocations
MaxCalls == 2
\* number of distinct endpoint names callers use
NumEndpointNames == 1

SubmitProcs == 1..MaxSubmits

\* an invocation of the endpoint API runs one handler, create or delete
CreateProcs == 1..MaxCalls

DeleteProcs == 1..MaxCalls

EndpointNames == 1..NumEndpointNames

\* the string "job-<8 hex>" produced by create_job, k standing for the hex part
JobIdStr(k) == <<"job", k>>

JobIds == {JobIdStr(k) : k \in 1..NumJobIds}

\* caller-chosen job names: a plain name, and a name that reads like a job id
JobNames == {<<"name", 1>>, JobIdStr(1)}

\* an earlier job, whose model artifact is in the bucket from the start
OldJobId == JobIdStr(0)

NoId == <<>>

\* the empty string stored for a missing service_arn or endpoint_url
Empty == <<>>

NoArn == <<>>

(* --------------------------- record store ------------------------------ *)
\* A table is a function from the stored keys to items; an item is a
\* function from attribute names to values.  A key with no item is outside
\* the table's domain.

\* Table.put_item(Item=item): unconditional write, replaces any stored item
put_item(table, key, item) ==
  [k \in (DOMAIN table) \cup {key} |-> IF k = key THEN item ELSE table[k]]

\* Table.get_item(Key=key).get('Item'): <<>> stands for None
get_item(table, key) ==
  IF key \in DOMAIN table THEN table[key] ELSE <<>>

\* an update_item that replaces the stored item by the SET attributes
update_item_Replace(table, key, keyattr, sets) ==
  put_item(table, key, sets @@ keyattr)

\* Table.update_item(Key, UpdateExpression='SET ...'): sets the attributes of
\* sets on the item; with no ConditionExpression a missing item is created
\* from the key attribute and the SET attributes
update_item(table, key, keyattr, sets) ==
  put_item(table, key,
           IF key \in DOMAIN table THEN sets @@ table[key] ELSE sets @@ keyattr)

\* Table.delete_item(Key=key)
delete_item(table, key) ==
  [k \in (DOMAIN table) \ {key} |-> table[k]]

VARIABLES
  jobTable,     \* the ml-jobs table
  objectStore,  \* keys of the objects in the bucket
  spc,          \* submit_job.lambda_handler: position of each invocation
  sjob,         \* submit_job.lambda_handler: job_id returned by create_job
  sname,        \* submit_job.lambda_handler: body['job_name']
  sarn,         \* submit_job.lambda_handler: task_arn
  sresp,        \* submit_job.lambda_handler: the response returned
  tpc,          \* train.main: position of the training unit of each launch
  tjob,         \* train.main: os.environ['JOB_ID']
  tout,         \* train.main: os.environ['S3_OUTPUT']
  overwritten,  \* history: create_job replaced an already stored item
  runTaskCalls, \* history: run_task requests issued by each invocation
  launched,     \* history: <<job id, handle>> of the tasks run_task returned
  endpointTable,   \* the ml-endpoints table
  services,        \* scheduler: handles of the live persistent compute units
  scalableTargets, \* autoscaling: endpoint names with a registered target
  scalingPolicies, \* autoscaling: endpoint names with an attached policy
  cpc,          \* create_endpoint.lambda_handler: position of each invocation
  cname,        \* create_endpoint.lambda_handler: body['endpoint_name']
  cjob,         \* create_endpoint.lambda_handler: body['job_id']
  csvc,         \* create_endpoint.lambda_handler: service_details['service_arn']
  cas,          \* create_endpoint.lambda_handler: autoscaling_success
  cresp,        \* create_endpoint.lambda_handler: the response returned
  createServiceCalls, \* history: create_service requests issued by each
                \* invocation
  racing,       \* history: creates of the same name that had passed the
                \* existence check and not yet written when this one passed it
  dpc,          \* delete_endpoint.lambda_handler: position of each invocation
  dname,        \* delete_endpoint.lambda_handler: path parameter endpoint_name
  darn,         \* delete_endpoint.lambda_handler: endpoint.get('service_arn')
  dresp,        \* delete_endpoint.lambda_handler: status code returned
  gresp,        \* get_job_status / get_endpoint_status: the last response
  environ,      \* create_endpoint: os.environ, the two ARNs of the deployment
  autoscaled    \* history: the label and result of the last setup_autoscaling

\* The locals of an invocation exist while it runs: they are set back to
\* their initial values when the handler returns, and what stays is the
\* response handed to the caller.

jobVars == <<jobTable, objectStore, spc, sjob, sname, sarn, sresp, tpc, tjob,
             tout, overwritten, launched, runTaskCalls>>

backendVars == <<endpointTable, services, scalableTargets, scalingPolicies>>

createVars == <<cpc, cname, cjob, csvc, cas, cresp, racing,
                createServiceCalls>>

deleteVars == <<dpc, dname, darn, dresp>>

endpointVars == <<backendVars, createVars, deleteVars>>

readVars == <<gresp>>

labelVars == <<environ, autoscaled>>

sideVars == <<readVars, labelVars>>

vars == <<jobVars, endpointVars, sideVars>>

(* ----------------------------- job store ------------------------------- *)
\* the object key train.upload_to_s3 writes and create_endpoint checks:
\* models/<segment>/model.pkl
ModelKey(segment) == <<"models", segment, "model.pkl">>

\* a create_job that stores an empty task_arn with the new item
JobItem_EmptyArn(id, name) ==
  [job_id |-> id, status |-> "pending", job_name |-> name,
   s3_output |-> ModelKey(name), task_arn |-> NoArn]

\* JobStore.create_job: item = {job_id, status: pending, created_at, **job_data}
JobItem(id, name) ==
  [job_id |-> id, status |-> "pending", job_name |-> name,
   s3_output |-> ModelKey(name)]

\* JobStore.create_job: put_item of the new item under the generated id
create_job(table, id, name) == put_item(table, id, JobItem(id, name))

\* JobStore.update_job_status(job_id, 'running', task_arn=arn)
update_job_status_running(table, id, arn) ==
  update_item(table, id, [job_id |-> id], [status |-> "running", task_arn |-> arn])

\* train.update_job_status(job_id, status): SET #s = :status only
update_job_status(table, id, status) ==
  update_item(table, id, [job_id |-> id], [status |-> status])

(* ============================ stored values ============================ *)
\* Stored values: numbers and containers of a job_data mapping carry their
\* Python type; v is the text of a number (repr for a float), the mapping of
\* a dict, the items of a list

StrValue(s) == [type |-> "str", v |-> s]

IntValue(s) == [type |-> "int", v |-> s]

FloatValue(s) == [type |-> "float", v |-> s]

DecimalValue(s) == [type |-> "decimal", v |-> s]

DictValue(f) == [type |-> "dict", v |-> f]

ListValue(q) == [type |-> "list", v |-> q]

\* str(Decimal(s)): Decimal('1e-07') prints as '1E-7', plain notation is kept
DecimalStr(s) == IF s = "1e-07" THEN "1E-7" ELSE s

\* JobStore._convert_floats_to_decimals: float -> DecimalValue(str(obj)), dict
\* values and list items converted recursively, anything else returned as is
RECURSIVE convert_floats_to_decimals(_)
convert_floats_to_decimals(obj) ==
  IF obj.type = "float" THEN DecimalValue(obj.v)
  ELSE IF obj.type = "dict"
    THEN DictValue([k \in DOMAIN obj.v |-> convert_floats_to_decimals(obj.v[k])])
  ELSE IF obj.type = "list"
    THEN ListValue([i \in DOMAIN obj.v |-> convert_floats_to_decimals(obj.v[i])])
  ELSE obj

\* Table.put_item / get_item: every number attribute (int or Decimal) is
\* stored as a DynamoDB number and read back as a Decimal
RECURSIVE dynamodb_attribute(_)
dynamodb_attribute(obj) ==
  IF obj.type \in {"int", "decimal"} THEN DecimalValue(obj.v)
  ELSE IF obj.type = "dict"
    THEN DictValue([k \in DOMAIN obj.v |-> dynamodb_attribute(obj.v[k])])
  ELSE IF obj.type = "list"
    THEN ListValue([i \in DOMAIN obj.v |-> dynamodb_attribute(obj.v[i])])
  ELSE obj

\* Table.put_item raises on a float (only Decimal numbers are accepted) and
\* on a Decimal that is NaN or Infinity
RECURSIVE Storable(_)
Storable(obj) ==
  IF obj.type = "float" THEN FALSE
  ELSE IF obj.type = "decimal" THEN obj.v # "nan"
  ELSE IF obj.type = "dict" THEN \A k \in DOMAIN obj.v : Storable(obj.v[k])
  ELSE IF obj.type = "list" THEN \A i \in DOMAIN obj.v : Storable(obj.v[i])
  ELSE TRUE

\* json.dumps(job, default=str) followed by the client's json.loads: a
\* Decimal is not JSON serialisable, so default=str turns it into a string
RECURSIVE json_dumps_default_str(_)
json_dumps_default_str(obj) ==
  IF obj.type = "decimal" THEN StrValue(DecimalStr(obj.v))
  ELSE IF obj.type = "dict"
    THEN DictValue([k \in DOMAIN obj.v |-> json_dumps_default_str(obj.v[k])])
  ELSE IF obj.type = "list"
    THEN ListValue([i \in DOMAIN obj.v |-> json_dumps_default_str(obj.v[i])])
  ELSE obj

\* int(time.time()) at the create_job call
Now == IntValue("1700000000")

\* the attributes of an item that hold numbers or containers; every other
\* attribute is a string, which no conversion touches
ValueAttributes == {"created_at", "hyperparameters"}

\* JobStore.create_job lines 63-71: the defaults, then **job_data (a key of
\* job_data replaces the default of the same name), floats converted
JobStoreItem(id, job_data) ==
  LET item == job_data @@ [job_id |-> id, status |-> "pending",
                           created_at |-> Now]
  IN  [k \in DOMAIN item |->
         IF k \in ValueAttributes
           THEN convert_floats_to_decimals(item[k]) ELSE item[k]]

\* the item as the table holds it and get_item returns it
StoredItem(item) ==
  [k \in DOMAIN item |->
     IF k \in ValueAttributes THEN dynamodb_attribute(item[k]) ELSE item[k]]

\* put_item accepts the item
StorableItem(item) ==
  \A k \in DOMAIN item \cap ValueAttributes : Storable(item[k])

\* hyperparameters of a request body: ints, floats, floats nested in a
\* mapping and in a list, and a float json.loads reads from NaN
HyperParameters ==
  { DictValue([epochs |-> IntValue("10")]),
    DictValue([lr |-> FloatValue("1e-07")]),
    DictValue([optimizer |-> DictValue([lr |-> FloatValue("0.01")])]),
    DictValue([layers |-> ListValue(<<FloatValue("0.01"), IntValue("10")>>)]),
    DictValue([lr |-> FloatValue("nan")]) }

\* submit_job.lambda_handler lines 215-222: the job_data of a request
SubmitJobData ==
  { [job_name |-> <<"name", 1>>, s3_output |-> ModelKey(<<"name", 1>>),
     hyperparameters |-> h] : h \in HyperParameters }

\* job_data mappings of direct create_job callers, with keys of their own
\* choice
CallerJobData ==
  { [job_name |-> <<"name", 1>>, status |-> "completed"],
    [job_name |-> <<"name", 1>>, job_id |-> JobIdStr(1)] }

JobDataInputs == SubmitJobData \cup CallerJobData

\* get_job_status.lambda_handler lines 134-141: json.dumps(job, default=str)
\* as the client parses it; strings are
\* written as they are, so an item without numbers is its own body
JobStatusBody(job) ==
  IF DOMAIN job \cap ValueAttributes = {}
    THEN job
    ELSE [k \in DOMAIN job |->
            IF k \in ValueAttributes THEN json_dumps_default_str(job[k])
                                      ELSE job[k]]

\* task['taskArn'] of the task run_task started for invocation p
TaskArn(p) == <<"task", p>>

\* submit_job.lambda_handler response: status code and the body's job_id
Response(code, id) == [code |-> code, job_id |-> id]

\* create_endpoint.lambda_handler response: status code and body (the error
\* text of a failure, the endpoint fields of a success)
EndpointResponse(code, body) == [code |-> code, body |-> body]

\* the body of the 200 of create_endpoint.lambda_handler
CreatedBody(n, arn, url) ==
  [endpoint_name |-> n, endpoint_url |-> url, status |-> "active",
   service_arn |-> arn]

JobInit ==
  /\ jobTable = <<>>
  /\ objectStore = {ModelKey(OldJobId)}
  /\ spc = [p \in SubmitProcs |-> "idle"]
  /\ sjob = [p \in SubmitProcs |-> NoId]
  /\ sname = [p \in SubmitProcs |-> NoId]
  /\ sarn = [p \in SubmitProcs |-> NoArn]
  /\ sresp = [p \in SubmitProcs |-> Response(0, NoId)]
  /\ tpc = [p \in SubmitProcs |-> "none"]
  /\ tjob = [p \in SubmitProcs |-> NoId]
  /\ tout = [p \in SubmitProcs |-> NoId]
  /\ overwritten = FALSE
  /\ launched = {}
  /\ runTaskCalls = [p \in SubmitProcs |-> 0]

(* ----------------- setup_autoscaling: the resource label --------------- *)
\* An ARN is the sequence of its pieces: names, and the separators ":" and
\* "/" that str.split cuts at.
TargetGroupNames == {"tg-a", "tg-b"}

LoadBalancerNames == {"lb-a", "lb-b"}

ArnIds == {"0a1", "0b2"}

\* arn:aws:elasticloadbalancing:region:account:targetgroup/name/id
TargetGroupArn(name, id) ==
  <<"arn", ":", "aws", ":", "elasticloadbalancing", ":", "region", ":",
    "account", ":", "targetgroup", "/", name, "/", id>>

\* arn:aws:elasticloadbalancing:region:account:loadbalancer/app/name/id
LoadBalancerArn(name, id) ==
  <<"arn", ":", "aws", ":", "elasticloadbalancing", ":", "region", ":",
    "account", ":", "loadbalancer", "/", "app", "/", name, "/", id>>

\* the ARN in the form the handler's comment expects, ending in app/name/id
AppArn(name, id) ==
  <<"arn", ":", "aws", ":", "elasticloadbalancing", ":", "region", ":",
    "account", ":", "app", "/", name, "/", id>>

\* the environment of the deployed function: both ARNs set
DeployedEnviron ==
  [TARGET_GROUP_ARN |-> TargetGroupArn("tg-a", "0a1"),
   ALB_ARN |-> AppArn("lb-a", "0a1")]

\* str.split(sep): the pieces between the separators, at least one
RECURSIVE split(_, _)
split(s, sep) ==
  IF s = <<>> THEN <<<<>>>>
  ELSE LET rest == split(Tail(s), sep)
       IN  IF Head(s) = sep THEN <<<<>>>> \o rest
           ELSE <<<<Head(s)>> \o Head(rest)>> \o Tail(rest)

\* an f-string "{parts[1]}/{parts[2]}/...": the parts joined by "/"
RECURSIVE slash_joined(_)
slash_joined(parts) ==
  IF Len(parts) = 1 THEN Head(parts)
  ELSE Head(parts) \o <<"/">> \o slash_joined(Tail(parts))

\* os.environ.get(key, ''): the value, the empty string when unset
environ_get(env, key) == IF key \in DOMAIN env THEN env[key] ELSE <<>>

\* setup_autoscaling lines 226-243: the ResourceLabel computed from
\* TARGET_GROUP_ARN and ALB_ARN; raised tells that the computation raised
\* (None.split for an unset TARGET_GROUP_ARN, an index out of range for an
\* ARN whose last piece has fewer than three parts)
resource_label(env) ==
  IF "TARGET_GROUP_ARN" \notin DOMAIN env THEN [raised |-> TRUE, label |-> <<>>]
  ELSE
    LET tg_parts == split(env["TARGET_GROUP_ARN"], ":")
        tg_name_with_id == split(tg_parts[Len(tg_parts)], "/")
        alb_arn == environ_get(env, "ALB_ARN")
        alb_parts == split(alb_arn, ":")
        alb_name_with_id == split(alb_parts[Len(alb_parts)], "/")
    IN  IF alb_arn # <<>>
          THEN IF Len(alb_name_with_id) < 3 \/ Len(tg_name_with_id) < 3
                 THEN [raised |-> TRUE, label |-> <<>>]
                 ELSE [raised |-> FALSE,
                       label |-> slash_joined(SubSeq(alb_name_with_id, 1, 3)
                                              \o SubSeq(tg_name_with_id, 1, 3))]
          ELSE IF Len(tg_name_with_id) < 3
                 THEN [raised |-> TRUE, label |-> <<>>]
                 ELSE [raised |-> FALSE,
                       label |-> slash_joined(<<<<"targetgroup">>,
                                                tg_name_with_id[2],
                                                tg_name_with_id[3]>>)]

\* what a setup_autoscaling call passed as ResourceLabel (<<>> when it did
\* not come to put_scaling_policy) and what it returned
AutoscaleCall(label, result) == [label |-> label, result |-> result]

NoCall == AutoscaleCall(<<>>, "not called")

\* what a read handler returned, and the state before any read request
ReadResponse(handler, response) == [handler |-> handler, response |-> response]

NoRead == ReadResponse("none", <<>>)

\* no create-endpoint or delete-endpoint invocation has started
EndpointIdle ==
  /\ cpc = [p \in CreateProcs |-> "idle"]
  /\ cname = [p \in CreateProcs |-> 0]
  /\ cjob = [p \in CreateProcs |-> NoId]
  /\ csvc = [p \in CreateProcs |-> Empty]
  /\ cas = [p \in CreateProcs |-> FALSE]
  /\ cresp = [p \in CreateProcs |-> EndpointResponse(0, Empty)]
  /\ racing = [p \in CreateProcs |-> {}]
  /\ createServiceCalls = [p \in CreateProcs |-> 0]
  /\ dpc = [p \in DeleteProcs |-> "idle"]
  /\ dname = [p \in DeleteProcs |-> 0]
  /\ darn = [p \in DeleteProcs |-> Empty]
  /\ dresp = [p \in DeleteProcs |-> 0]
  /\ gresp = NoRead
  /\ autoscaled = NoCall

EndpointInit ==
  /\ environ = DeployedEnviron
  /\ endpointTable = <<>>
  /\ services = {}
  /\ scalableTargets = {}
  /\ scalingPolicies = {}
  /\ EndpointIdle

Init == JobInit /\ EndpointInit

\* invocations are interchangeable: number them in the order they arrive
SubmitMayStart(p) ==
  spc[p] = "idle" /\ (IF p = 1 THEN TRUE ELSE spc[p - 1] # "idle")

(* --------------------- submit_job.lambda_handler ----------------------- *)
\* request bodies that do not pass validation: text that is not JSON, a JSON
\* object without a required field, and a body that is no JSON object at
\* all (null, or a JSON array, string or number)
InvalidBodies == {"not_json", "missing_field", "not_object"}

\* a validation that answers a body that is no JSON object with 422
ValidationCode_Unprocessable(kind) == IF kind = "not_object" THEN 422 ELSE 400

\* submit_job lines 182-213 and 300-311, create_endpoint lines 294-325 and
\* 460-471: json.loads raising JSONDecodeError and validate_input failing
\* return 400; json.loads(None) raises TypeError and body.keys() of a value
\* that is no dict raises AttributeError, which only the outer handler
\* catches: 500
ValidationCode(kind) == IF kind = "not_object" THEN 500 ELSE 400

\* lines 182-213 (and 300-311): the body does not pass validation
SubmitInvalidStep(p, kind) ==
  /\ SubmitMayStart(p)
  /\ spc' = [spc EXCEPT ![p] = "done"]
  /\ sresp' = [sresp EXCEPT ![p] = Response(ValidationCode(kind), NoId)]
  /\ UNCHANGED runTaskCalls
  /\ UNCHANGED <<jobTable, objectStore, sjob, sname, sarn, tpc, tjob, tout,
                 overwritten, launched, endpointVars, sideVars>>

SubmitInvalid(p) == \E kind \in InvalidBodies : SubmitInvalidStep(p, kind)

\* ids other than the one that doubles as a job name are interchangeable:
\* a draw among those not stored yet takes the least of them
MayDraw(id) ==
  id \in JobIds /\ (id[2] > 2 => JobIdStr(id[2] - 1) \in DOMAIN jobTable)

\* a handler that goes on to the launcher when create_job raised
SubmitCreateStep_LaunchAnyway(p, ok) ==
  /\ SubmitMayStart(p)
  /\ IF ok
       THEN \E name \in JobNames, id \in JobIds :
              /\ MayDraw(id)
              /\ jobTable' = create_job(jobTable, id, name)
              /\ overwritten' = (overwritten \/ id \in DOMAIN jobTable)
              /\ sjob' = [sjob EXCEPT ![p] = id]
              /\ sname' = [sname EXCEPT ![p] = name]
              /\ spc' = [spc EXCEPT ![p] = "s_launch"]
              /\ UNCHANGED sresp
       ELSE /\ spc' = [spc EXCEPT ![p] = "s_launch"]
            /\ UNCHANGED <<jobTable, overwritten, sjob, sname, sresp>>
  /\ UNCHANGED runTaskCalls
  /\ UNCHANGED <<objectStore, sarn, tpc, tjob, tout, launched, endpointVars,
                 sideVars>>

\* lines 215-261: valid body; create_job draws an id and writes the item, ok
\* telling whether it returned (store failure: 500)
SubmitCreateStep(p, ok) ==
  /\ SubmitMayStart(p)
  /\ IF ok
       THEN \E name \in JobNames, id \in JobIds :
              /\ MayDraw(id)
              /\ jobTable' = create_job(jobTable, id, name)
              /\ overwritten' = (overwritten \/ id \in DOMAIN jobTable)
              /\ sjob' = [sjob EXCEPT ![p] = id]
              /\ sname' = [sname EXCEPT ![p] = name]
              /\ spc' = [spc EXCEPT ![p] = "s_launch"]
              /\ UNCHANGED sresp
       ELSE /\ spc' = [spc EXCEPT ![p] = "done"]
            /\ sresp' = [sresp EXCEPT ![p] = Response(500, NoId)]
            /\ UNCHANGED <<jobTable, overwritten, sjob, sname>>
  /\ UNCHANGED runTaskCalls
  /\ UNCHANGED <<objectStore, sarn, tpc, tjob, tout, launched, endpointVars,
                 sideVars>>

SubmitCreate(p) == \E ok \in BOOLEAN : SubmitCreateStep(p, ok)

\* a handler that calls the launcher again when run_task raised
SubmitLaunch_Retry(p) ==
  /\ spc[p] = "s_launch"
  /\ \E outcome \in {"task", "no_task", "raise"} :
       IF outcome = "task"
         THEN /\ sarn' = [sarn EXCEPT ![p] = TaskArn(p)]
              /\ tpc' = [tpc EXCEPT ![p] = "t_run"]
              /\ tjob' = [tjob EXCEPT ![p] = sjob[p]]
              /\ tout' = [tout EXCEPT ![p] = sname[p]]
              /\ launched' = launched \cup {<<sjob[p], TaskArn(p)>>}
              /\ spc' = [spc EXCEPT ![p] = "s_update"]
              /\ UNCHANGED <<sresp, sjob, sname>>
       ELSE IF outcome = "raise"
         THEN UNCHANGED <<spc, sresp, sjob, sname, sarn, tpc, tjob, tout, launched>>
         ELSE /\ spc' = [spc EXCEPT ![p] = "done"]
              /\ sresp' = [sresp EXCEPT ![p] = Response(200, sjob[p])]
              /\ sjob' = [sjob EXCEPT ![p] = NoId]
              /\ sname' = [sname EXCEPT ![p] = NoId]
              /\ UNCHANGED <<sarn, tpc, tjob, tout, launched>>
  /\ runTaskCalls' = [runTaskCalls EXCEPT ![p] = @ + 1]
  /\ UNCHANGED <<jobTable, objectStore, overwritten, endpointVars, sideVars>>

\* lines 263-271 and 284-298 with start_ecs_task (64-163): run_task returns a
\* task (handle returned; the training unit starts with JOB_ID and S3_OUTPUT
\* in its environment), or no task, or raises (None returned: the record is
\* left alone and 200 is returned)
SubmitLaunch(p) ==
  /\ spc[p] = "s_launch"
  /\ \E outcome \in {"task", "no_task", "raise"} :
       IF outcome = "task"
         THEN /\ sarn' = [sarn EXCEPT ![p] = TaskArn(p)]
              /\ tpc' = [tpc EXCEPT ![p] = "t_run"]
              /\ tjob' = [tjob EXCEPT ![p] = sjob[p]]
              /\ tout' = [tout EXCEPT ![p] = sname[p]]
              /\ launched' = launched \cup {<<sjob[p], TaskArn(p)>>}
              /\ spc' = [spc EXCEPT ![p] = "s_update"]
              /\ UNCHANGED <<sresp, sjob, sname>>
         ELSE /\ spc' = [spc EXCEPT ![p] = "done"]
              /\ sresp' = [sresp EXCEPT ![p] = Response(200, sjob[p])]
              /\ sjob' = [sjob EXCEPT ![p] = NoId]
              /\ sname' = [sname EXCEPT ![p] = NoId]
              /\ UNCHANGED <<sarn, tpc, tjob, tout, launched>>
  /\ runTaskCalls' = [runTaskCalls EXCEPT ![p] = @ + 1]
  /\ UNCHANGED <<jobTable, objectStore, overwritten, endpointVars, sideVars>>

\* lines 273-298: update_job_status(job_id, 'running', task_arn=...), ok
\* telling whether the write went through; a failed write is logged only;
\* 200 either way
SubmitUpdateStep(p, ok) ==
  /\ spc[p] = "s_update"
  /\ jobTable' = IF ok
                   THEN update_job_status_running(jobTable, sjob[p], sarn[p])
                   ELSE jobTable
  /\ spc' = [spc EXCEPT ![p] = "done"]
  /\ sresp' = [sresp EXCEPT ![p] = Response(200, sjob[p])]
  /\ sjob' = [sjob EXCEPT ![p] = NoId]
  /\ sname' = [sname EXCEPT ![p] = NoId]
  /\ sarn' = [sarn EXCEPT ![p] = NoArn]
  /\ UNCHANGED runTaskCalls
  /\ UNCHANGED <<objectStore, tpc, tjob, tout, overwritten, launched,
                 endpointVars, sideVars>>

SubmitUpdate(p) == \E ok \in BOOLEAN : SubmitUpdateStep(p, ok)

(* ----------------------------- train.main ------------------------------ *)
\* lines 526-586 with upload_to_s3 (414-440): configuration, validation of
\* the hyperparameters, training and the local save (any exception goes to
\* the handler at line 613), then the upload of the model, whose result is
\* logged and the run continues; S3_OUTPUT is read no more
TrainRun(p) ==
  /\ tpc[p] = "t_run"
  /\ \E trained \in BOOLEAN :
       IF trained
         THEN /\ \E uploaded \in BOOLEAN :
                   objectStore' = IF uploaded
                                    THEN objectStore \cup {ModelKey(tout[p])}
                                    ELSE objectStore
              /\ tpc' = [tpc EXCEPT ![p] = "t_report_completed"]
         ELSE /\ tpc' = [tpc EXCEPT ![p] = "t_report_failed"]
              /\ UNCHANGED objectStore
  /\ tout' = [tout EXCEPT ![p] = NoId]
  /\ UNCHANGED runTaskCalls
  /\ UNCHANGED <<jobTable, spc, sjob, sname, sarn, sresp, tjob,
                 overwritten, launched, endpointVars, sideVars>>

\* lines 588-599 (completed) and 628-641 (failed) with update_job_status
\* (442-473): one SET of the status; a failed write is logged only; the
\* process exits
TrainReport(p) ==
  /\ tpc[p] \in {"t_report_completed", "t_report_failed"}
  /\ \E ok \in BOOLEAN :
       jobTable' = IF ok
                     THEN update_job_status(jobTable, tjob[p],
                            IF tpc[p] = "t_report_completed" THEN "completed"
                                                             ELSE "failed")
                     ELSE jobTable
  /\ tpc' = [tpc EXCEPT ![p] = "t_exit"]
  /\ tjob' = [tjob EXCEPT ![p] = NoId]
  /\ UNCHANGED runTaskCalls
  /\ UNCHANGED <<objectStore, spc, sjob, sname, sarn, sresp, tout, overwritten,
                 launched, endpointVars, sideVars>>

JobNext ==
  \E p \in SubmitProcs :
    \/ SubmitInvalid(p)
    \/ SubmitCreate(p)
    \/ SubmitLaunch(p)
    \/ SubmitUpdate(p)
    \/ TrainRun(p)
    \/ TrainReport(p)

(* ======================== properties of the job side =================== *)
\* a submit-job invocation for job id is between create_job and its return
SubmitInFlight(id) ==
  \E p \in SubmitProcs : sjob[p] = id /\ spc[p] \in {"s_launch", "s_update"}

\* the launcher returned a handle to a submit-job invocation of job id
LaunchedFor(id) == \E h \in launched : h[1] = id

StatusRank(status) ==
  CASE status = "pending" -> 0
    [] status = "running" -> 1
    [] OTHER -> 2

\* C1: when the launcher returns failure (no task, or run_task raises), the
\* handler returns 200 with the job_id of the record it created and that
\* record has status pending at the return.
C1_LaunchFailureLeavesPending ==
  [][\A p \in SubmitProcs :
       (spc[p] = "s_launch" /\ spc'[p] = "done") =>
          /\ sresp'[p] = Response(200, sjob[p])
          /\ sjob[p] \in DOMAIN jobTable'
          /\ jobTable'[sjob[p]].status = "pending"]_vars

\* C2: under any interleaving of the submit handler's status update and the
\* training unit's status report (the steps other than the creation of a
\* record), the stored status of a job only moves forward along
\* pending -> running -> completed or failed; a record that holds completed
\* or failed is never overwritten with running or pending.
C2_StatusOnlyMovesForward ==
  [][(\A p \in SubmitProcs : spc'[p] = "s_launch" => spc[p] = "s_launch") =>
       \A id \in DOMAIN jobTable :
         /\ id \in DOMAIN jobTable'
         /\ StatusRank(jobTable'[id].status) >= StatusRank(jobTable[id].status)]_vars

\* C3 (as claimed): with no submit-job invocation in flight for a job, its
\* record carries a task_arn if and only if the launcher returned a handle
\* for that job, whatever the outcome of the store update after the launch.
C3_TaskArnIffLaunched ==
  \A id \in DOMAIN jobTable :
    ~SubmitInFlight(id) =>
       (("task_arn" \in DOMAIN jobTable[id]) <=> LaunchedFor(id))

\* C3 (amended): a job record carries a task_arn only if the launcher
\* returned that handle for that job (the converse fails: after a failed
\* store update the record of a launched job carries none); an invocation
\* writes the handle only after the launcher returned it.
C3_TaskArnOnlyIfLaunched ==
  /\ \A id \in DOMAIN jobTable :
       "task_arn" \in DOMAIN jobTable[id] =>
          <<id, jobTable[id].task_arn>> \in launched
  /\ \A p \in SubmitProcs :
       spc[p] = "s_update" =>
          /\ sarn[p] = TaskArn(p)
          /\ <<sjob[p], sarn[p]>> \in launched

\* C3 witness: a record carries the handle of its launch, and the record of
\* another launched job whose invocation has returned carries none
C3_Witness ==
  /\ \E id \in DOMAIN jobTable :
       /\ LaunchedFor(id)
       /\ "task_arn" \in DOMAIN jobTable[id]
       /\ jobTable[id].task_arn # NoArn
  /\ \E id \in DOMAIN jobTable :
       /\ LaunchedFor(id)
       /\ ~SubmitInFlight(id)
       /\ "task_arn" \notin DOMAIN jobTable[id]

\* C4: every submit-job call that returns 200 returns a job_id that no
\* earlier call returned, and create_job never replaces a stored record.
C4_JobIdsNeverReused ==
  /\ ~overwritten
  /\ \A p, q \in SubmitProcs :
       (p # q /\ sresp[p].code = 200 /\ sresp[q].code = 200) =>
          sresp[p].job_id # sresp[q].job_id


(* --------------------------- endpoint store ---------------------------- *)
\* a create_endpoint that writes the new item as already active
EndpointItem_Active(n, job) ==
  [endpoint_name |-> n, status |-> "active", job_id |-> job,
   model_s3_path |-> ModelKey(job), service_arn |-> Empty,
   endpoint_url |-> Empty]

\* EndpointStore.create_endpoint: the item written, status creating and the
\* optional fields defaulting to the empty string
EndpointItem(n, job) ==
  [endpoint_name |-> n, status |-> "creating", job_id |-> job,
   model_s3_path |-> ModelKey(job), service_arn |-> Empty,
   endpoint_url |-> Empty]

\* a create_endpoint that writes only when no item is stored under the name
create_endpoint_IfAbsent(table, n, job) ==
  IF n \in DOMAIN table THEN table ELSE put_item(table, n, EndpointItem(n, job))

\* EndpointStore.create_endpoint: put_item of the new item under its name
create_endpoint(table, n, job) == put_item(table, n, EndpointItem(n, job))

\* EndpointStore.get_endpoint: the stored item, <<>> for None
get_endpoint(table, n) == get_item(table, n)

\* an update_endpoint_status whose SET expression lacks the status
update_endpoint_status_NoStatus(table, n, status, kwargs) ==
  update_item(table, n, [endpoint_name |-> n], kwargs)

\* EndpointStore.update_endpoint_status(name, status, **kwargs)
update_endpoint_status(table, n, status, kwargs) ==
  update_item(table, n, [endpoint_name |-> n], kwargs @@ [status |-> status])

\* an existence test that never finds the endpoint
EndpointExists_Never(existing_endpoint) == FALSE

\* create_endpoint.lambda_handler line 332: if existing_endpoint
EndpointExists(existing_endpoint) == existing_endpoint # <<>>

\* a model check that accepts every path
check_model_exists_Always(store, s3_path, ok) == TRUE

\* create_endpoint.check_model_exists: head_object on the path; True when it
\* returns, False when it raises (object missing, or the lookup failed)
check_model_exists(store, s3_path, ok) == ok /\ s3_path \in store

\* get_endpoint_status.lambda_handler with a name: the status code returned
\* (500 when the lookup raises, 404 without a record, 200 with it)
get_endpoint_status(table, n, ok) ==
  IF ~ok THEN 500
  ELSE IF get_endpoint(table, n) = <<>> THEN 404
  ELSE 200

\* event['pathParameters'] of a Get Endpoint Status request: None, a mapping
\* without endpoint_name (the list request), or a mapping with the name
EndpointPathParameters ==
  {<<>>, [proxy |-> <<"endpoints">>]}
    \cup {[endpoint_name |-> n] : n \in EndpointNames}

\* get_endpoint_status.lambda_handler (60-184), the status code returned for
\* every request: path_parameters.get raises on None (500); without a name
\* list_endpoints is scanned (200, or 500 when it raises); with a name the
\* point lookup above
get_endpoint_status_code(table, pathParameters, ok) ==
  IF pathParameters = <<>> THEN 500
  ELSE IF "endpoint_name" \notin DOMAIN pathParameters
    THEN (IF ok THEN 200 ELSE 500)
  ELSE get_endpoint_status(table, pathParameters.endpoint_name, ok)

\* handle of the persistent compute unit started by invocation p for name n
ServiceArn(n, p) == <<"service", n, p>>

\* the live units the scheduler knows under the name inference-<n>
UnitsOf(n) == {h \in services : h[2] = n}

\* f"http://{alb_dns}/{endpoint_name}"
EndpointUrl(n) == <<"http", n>>

\* json body {'error': text}
ErrorBody(text) == [error |-> text]

\* 'Invalid JSON in request body', 'Missing required field: ...'
InvalidBody == ErrorBody(<<"invalid request">>)

\* f'Endpoint {endpoint_name} already exists'
ExistsBody(n) == ErrorBody(<<"Endpoint", n, "already exists">>)

\* f'Model not found at {model_s3_path}'
ModelNotFoundBody(path) == ErrorBody(<<"Model not found at", path>>)

\* str(e) of the exception the named call raised
RaisedBody(call) == ErrorBody(<<"raised", call>>)

\* {'error': 'Database error', 'message': str(db_error)}
DatabaseErrorBody ==
  [error |-> <<"Database error">>, message |-> <<"raised", "create_endpoint">>]

\* {'error': 'Failed to create ECS service'}
LaunchFailedBody == ErrorBody(<<"Failed to create ECS service">>)

\* job ids a Create Endpoint caller passes: one with a model artifact in the
\* bucket from the start, one a submit-job call may have produced
RequestedJobIds == {OldJobId, JobIdStr(1)}

\* invocation p has not arrived
NotStarted(p) == cpc[p] = "idle" /\ dpc[p] = "idle"

\* an invocation runs one handler; invocations are numbered as they arrive
MayStart(p) ==
  NotStarted(p) /\ (IF p = 1 THEN TRUE ELSE ~NotStarted(p - 1))

CreateMayStart(p) == MayStart(p)

DeleteMayStart(p) == MayStart(p)

(* ------------------- create_endpoint.lambda_handler -------------------- *)
\* the handler returns resp: its locals are gone
CreateReturn(p, resp) ==
  /\ cpc' = [cpc EXCEPT ![p] = "done"]
  /\ cresp' = [cresp EXCEPT ![p] = resp]
  /\ cname' = [cname EXCEPT ![p] = 0]
  /\ cjob' = [cjob EXCEPT ![p] = NoId]
  /\ csvc' = [csvc EXCEPT ![p] = Empty]
  /\ cas' = [cas EXCEPT ![p] = FALSE]
  /\ racing' = [racing EXCEPT ![p] = {}]

\* lines 294-325 (and 460-471): the body does not pass validation
CreateInvalidStep(p, kind) ==
  /\ CreateMayStart(p)
  /\ CreateReturn(p, EndpointResponse(ValidationCode(kind),
                       IF kind = "not_object" THEN RaisedBody("keys")
                                              ELSE InvalidBody))
  /\ UNCHANGED createServiceCalls
  /\ UNCHANGED <<backendVars, deleteVars, jobVars, sideVars>>

CreateInvalid(p) == \E kind \in InvalidBodies : CreateInvalidStep(p, kind)

\* lines 327-343 (and 460-471 when the lookup raises): the existence check
\* of a request for name n and job, ok telling whether get_endpoint returned
CreateCheckStep(p, n, job, ok) ==
  /\ CreateMayStart(p)
  /\ IF ~ok
       THEN CreateReturn(p, EndpointResponse(500, RaisedBody("get_endpoint")))
       ELSE IF EndpointExists(get_endpoint(endpointTable, n))
       THEN CreateReturn(p, EndpointResponse(409, ExistsBody(n)))
       ELSE /\ cpc' = [cpc EXCEPT ![p] = "c_model"]
            /\ cname' = [cname EXCEPT ![p] = n]
            /\ cjob' = [cjob EXCEPT ![p] = job]
            /\ racing' = [racing EXCEPT ![p] =
                 {q \in CreateProcs \ {p} :
                    cname[q] = n /\ cpc[q] \in {"c_model", "c_put"}}]
            /\ UNCHANGED <<cresp, csvc, cas>>
  /\ UNCHANGED createServiceCalls
  /\ UNCHANGED <<backendVars, deleteVars, jobVars, sideVars>>

CreateCheck(p) ==
  \E n \in EndpointNames, job \in RequestedJobIds, ok \in BOOLEAN :
    CreateCheckStep(p, n, job, ok)

\* lines 345-361 with check_model_exists (66-94): head_object on the derived
\* path, ok telling whether the lookup itself went through; any exception
\* of the lookup reads as a missing model: 404
CreateModelStep(p, ok) ==
  /\ cpc[p] = "c_model"
  /\ IF check_model_exists(objectStore, ModelKey(cjob[p]), ok)
       THEN /\ cpc' = [cpc EXCEPT ![p] = "c_put"]
            /\ UNCHANGED <<cname, cjob, csvc, cas, cresp, racing>>
       ELSE CreateReturn(p, EndpointResponse(404,
                              ModelNotFoundBody(ModelKey(cjob[p]))))
  /\ UNCHANGED createServiceCalls
  /\ UNCHANGED <<backendVars, deleteVars, jobVars, sideVars>>

CreateModel(p) == \E ok \in BOOLEAN : CreateModelStep(p, ok)

\* lines 367-394: the record is written with status creating, ok telling
\* whether the write went through; a store failure returns 500
CreatePutStep(p, ok) ==
  /\ cpc[p] = "c_put"
  /\ IF ok
       THEN /\ endpointTable' = create_endpoint(endpointTable, cname[p], cjob[p])
            /\ cpc' = [cpc EXCEPT ![p] = "c_launch"]
            /\ UNCHANGED <<cname, cjob, csvc, cas, cresp, racing>>
       ELSE /\ CreateReturn(p, EndpointResponse(500, DatabaseErrorBody))
            /\ UNCHANGED endpointTable
  /\ UNCHANGED createServiceCalls
  /\ UNCHANGED <<services, scalableTargets, scalingPolicies, deleteVars, jobVars,
                 sideVars>>

CreatePut(p) == \E ok \in BOOLEAN : CreatePutStep(p, ok)

\* a launcher that lets an exception of create_service reach the handler,
\* whose outer except answers 500 with the exception text
CreateLaunch_Propagate(p) ==
  /\ cpc[p] = "c_launch"
  /\ \E outcome \in {"service", "no_service", "raise"} :
       IF outcome = "service"
         THEN /\ services' = services \cup {ServiceArn(cname[p], p)}
              /\ csvc' = [csvc EXCEPT ![p] = ServiceArn(cname[p], p)]
              /\ cpc' = [cpc EXCEPT ![p] = "c_autoscale"]
              /\ UNCHANGED <<cname, cjob, cas, cresp, racing>>
       ELSE IF outcome = "raise"
         THEN /\ CreateReturn(p, EndpointResponse(500,
                                  RaisedBody("create_service")))
              /\ UNCHANGED services
         ELSE /\ cpc' = [cpc EXCEPT ![p] = "c_fail"]
              /\ UNCHANGED <<services, cname, cjob, csvc, cas, cresp, racing>>
  /\ createServiceCalls' = [createServiceCalls EXCEPT ![p] = @ + 1]
  /\ UNCHANGED <<endpointTable, scalableTargets, scalingPolicies, deleteVars,
                 jobVars, sideVars>>

\* lines 396-400 with create_ecs_service (96-188): create_service returns a
\* service, or a response without one, or raises (None)
CreateLaunch(p) ==
  /\ cpc[p] = "c_launch"
  /\ \E outcome \in {"service", "no_service", "raise"} :
       IF outcome = "service"
         THEN /\ services' = services \cup {ServiceArn(cname[p], p)}
              /\ csvc' = [csvc EXCEPT ![p] = ServiceArn(cname[p], p)]
              /\ cpc' = [cpc EXCEPT ![p] = "c_autoscale"]
         ELSE /\ cpc' = [cpc EXCEPT ![p] = "c_fail"]
              /\ UNCHANGED <<services, csvc>>
  /\ createServiceCalls' = [createServiceCalls EXCEPT ![p] = @ + 1]
  /\ UNCHANGED <<endpointTable, scalableTargets, scalingPolicies, cname, cjob,
                 cas, cresp, racing, deleteVars, jobVars, sideVars>>

\* a configurator that deregisters the target again when the attach failed
CreateAutoscaleStep_Rollback(p, registered, attached) ==
  /\ cpc[p] = "c_autoscale"
  /\ (attached => registered)
  /\ scalableTargets' = IF attached THEN scalableTargets \cup {cname[p]}
                                    ELSE scalableTargets \ {cname[p]}
  /\ scalingPolicies' = IF attached THEN scalingPolicies \cup {cname[p]}
                                    ELSE scalingPolicies
  /\ cas' = [cas EXCEPT ![p] = attached]
  /\ cpc' = [cpc EXCEPT ![p] = "c_update"]
  /\ UNCHANGED createServiceCalls
  /\ UNCHANGED <<endpointTable, services, cname, cjob, csvc, cresp, racing,
                 deleteVars, jobVars, sideVars>>

\* lines 401-408 with setup_autoscaling (190-275): one try holds
\* register_scalable_target and then put_scaling_policy, so the policy is
\* attached only after the target was registered; any exception returns
\* False and undoes nothing; registered and attached tell which calls
\* went through
CreateAutoscaleStep(p, registered, attached) ==
  /\ cpc[p] = "c_autoscale"
  /\ (attached => registered)
  /\ scalableTargets' = IF registered THEN scalableTargets \cup {cname[p]}
                                      ELSE scalableTargets
  /\ scalingPolicies' = IF attached THEN scalingPolicies \cup {cname[p]}
                                    ELSE scalingPolicies
  /\ cas' = [cas EXCEPT ![p] = attached]
  /\ cpc' = [cpc EXCEPT ![p] = "c_update"]
  /\ UNCHANGED createServiceCalls
  /\ UNCHANGED <<endpointTable, services, cname, cjob, csvc, cresp, racing,
                 deleteVars, jobVars, sideVars>>

CreateAutoscale(p) ==
  \E registered \in BOOLEAN, attached \in BOOLEAN :
    CreateAutoscaleStep(p, registered, attached)

\* lines 410-443: update to active with the service fields (the result of
\* the write is not looked at) and 200
CreateUpdate(p) ==
  /\ cpc[p] = "c_update"
  /\ \E ok \in BOOLEAN :
       endpointTable' =
         IF ok
           THEN update_endpoint_status(endpointTable, cname[p], "active",
                  [service_arn |-> csvc[p],
                   endpoint_url |-> EndpointUrl(cname[p]),
                   autoscaling_enabled |-> cas[p]])
           ELSE endpointTable
  /\ CreateReturn(p, EndpointResponse(200,
                       CreatedBody(cname[p], csvc[p], EndpointUrl(cname[p]))))
  /\ UNCHANGED createServiceCalls
  /\ UNCHANGED <<services, scalableTargets, scalingPolicies, deleteVars, jobVars,
                 sideVars>>

\* lines 444-458: the launch failed; update to failed, ok telling whether
\* the write went through (its result is not looked at), and 500
CreateFailStep(p, ok) ==
  /\ cpc[p] = "c_fail"
  /\ endpointTable' =
       IF ok THEN update_endpoint_status(endpointTable, cname[p], "failed", <<>>)
             ELSE endpointTable
  /\ CreateReturn(p, EndpointResponse(500, LaunchFailedBody))
  /\ UNCHANGED createServiceCalls
  /\ UNCHANGED <<services, scalableTargets, scalingPolicies, deleteVars, jobVars,
                 sideVars>>

CreateFail(p) == \E ok \in BOOLEAN : CreateFailStep(p, ok)

(* ------------------- delete_endpoint.lambda_handler -------------------- *)
\* the handler returns the status code: its locals are gone
DeleteReturn(p, code) ==
  /\ dpc' = [dpc EXCEPT ![p] = "done"]
  /\ dresp' = [dresp EXCEPT ![p] = code]
  /\ dname' = [dname EXCEPT ![p] = 0]
  /\ darn' = [darn EXCEPT ![p] = Empty]

\* lines 181-197 (and 264-275): a path without endpoint_name returns 400;
\* with pathParameters null path_parameters.get raises AttributeError, which
\* the outer handler turns into 500
DeleteInvalid(p) ==
  /\ DeleteMayStart(p)
  /\ \E kind \in {"no_name", "no_parameters"} :
       DeleteReturn(p, IF kind = "no_name" THEN 400 ELSE 500)
  /\ UNCHANGED <<backendVars, createVars, jobVars, sideVars>>

\* a test of the service handle that takes every handle for a live one
HasServiceArn_Always(service_arn) == TRUE

\* lines 217-218: if service_arn (None and the empty string are falsy)
HasServiceArn(service_arn) == service_arn # Empty

\* lines 199-224 (and 264-275 when the lookup raises): the record of name n
\* is read, ok telling whether get_endpoint returned; without a record 404;
\* its service_arn decides whether compute is torn down
DeleteGetStep(p, n, ok) ==
  /\ DeleteMayStart(p)
  /\ IF ~ok
       THEN DeleteReturn(p, 500)
       ELSE IF get_endpoint(endpointTable, n) = <<>>
       THEN DeleteReturn(p, 404)
       ELSE LET item == get_endpoint(endpointTable, n)
                arn == IF "service_arn" \in DOMAIN item
                         THEN item.service_arn ELSE Empty
            IN /\ dname' = [dname EXCEPT ![p] = n]
               /\ darn' = [darn EXCEPT ![p] = arn]
               /\ dpc' = [dpc EXCEPT ![p] =
                    IF HasServiceArn(arn) THEN "d_autoscale" ELSE "d_record"]
               /\ UNCHANGED dresp
  /\ UNCHANGED <<backendVars, createVars, jobVars, sideVars>>

DeleteGet(p) ==
  \E n \in EndpointNames, ok \in BOOLEAN : DeleteGetStep(p, n, ok)

\* PolicyName of the policy setup_autoscaling attaches to endpoint n, and of
\* a policy somebody else attached to the same scalable target
OwnPolicy(n) == <<n, "request-count-scaling">>

OtherPolicy(n) == <<n, "other">>

\* the most policies describe_scaling_policies returns for one target
MaxPolicies == 2

\* policies.get('ScalingPolicies', []) for endpoint n: the endpoint's own
\* policy when it is attached, and at most one other policy, in any order
PolicyLists(n, attached) ==
  IF attached
    THEN {<<OwnPolicy(n)>>, <<OwnPolicy(n), OtherPolicy(n)>>,
          <<OtherPolicy(n), OwnPolicy(n)>>}
    ELSE {<<>>, <<OtherPolicy(n)>>}

AllPolicyLists ==
  UNION {PolicyLists(n, attached) : n \in EndpointNames, attached \in BOOLEAN}

\* the policies the loop of lines 73-86 calls delete_scaling_policy for when
\* the first nok calls return: the loop is inside the inner try, so the
\* first call that raises ends it
AttemptedDeletions(policies, nok) ==
  {policies[i] : i \in 1..(IF nok < Len(policies) THEN nok + 1
                                                   ELSE Len(policies))}

\* deregister_autoscaling's result: True after deregister_scalable_target
\* returned (line 99), False from the outer except (101-104); the inner
\* except (87-88) only logs
deregister_autoscaling_result(listed, policies, nok, deregistered) ==
  deregistered

\* a teardown that gives up when the scalable target cannot be deregistered
DeleteAutoscale_StopOnFailure(p) ==
  /\ dpc[p] = "d_autoscale"
  /\ \E policiesDeleted \in BOOLEAN, deregistered \in BOOLEAN :
       /\ scalingPolicies' = IF policiesDeleted
                               THEN scalingPolicies \ {dname[p]}
                               ELSE scalingPolicies
       /\ scalableTargets' = IF deregistered
                               THEN scalableTargets \ {dname[p]}
                               ELSE scalableTargets
       /\ dpc' = [dpc EXCEPT ![p] = IF deregistered THEN "d_scale" ELSE "d_record"]
  /\ UNCHANGED <<endpointTable, services, createVars, dname, darn, dresp, jobVars,
                 sideVars>>

\* delete_ecs_service line 133 with deregister_autoscaling (45-104): listed
\* tells whether describe_scaling_policies returned its list policies, nok
\* how many delete_scaling_policy calls returned before one raised (all of
\* them when nok = Len(policies)), deregistered whether
\* deregister_scalable_target returned; a failure of the listing or of a
\* deletion is logged and the deregistration follows; the result is not
\* looked at
DeleteAutoscaleStep(p, listed, policies, nok, deregistered) ==
  /\ dpc[p] = "d_autoscale"
  /\ policies \in PolicyLists(dname[p], dname[p] \in scalingPolicies)
  /\ nok \in 0..Len(policies)
  /\ scalingPolicies' =
       IF listed /\ \E i \in 1..nok : policies[i] = OwnPolicy(dname[p])
         THEN scalingPolicies \ {dname[p]}
         ELSE scalingPolicies
  /\ scalableTargets' = IF deregistered THEN scalableTargets \ {dname[p]}
                                        ELSE scalableTargets
  /\ dpc' = [dpc EXCEPT ![p] = "d_scale"]
  /\ UNCHANGED <<endpointTable, services, createVars, dname, darn, dresp, jobVars,
                 sideVars>>

DeleteAutoscale(p) ==
  \E listed \in BOOLEAN, policies \in AllPolicyLists, nok \in 0..MaxPolicies,
     deregistered \in BOOLEAN :
    DeleteAutoscaleStep(p, listed, policies, nok, deregistered)

\* ecs.update_service / delete_service on the units of an endpoint: the
\* scheduler raises for a service it does not know, and may raise otherwise
update_service_returns(units, ok) == ok /\ units # {}

\* delete_ecs_service's result: True after update_service and
\* delete_service both returned (line 158), False from the except (160-162)
delete_ecs_service_result(scaled, removed) == scaled /\ removed

\* delete_ecs_service lines 135-141 (and 160-162): update_service sets the
\* desired count to 0; an exception ends the teardown with False
DeleteScaleStep(p, ok) ==
  /\ dpc[p] = "d_scale"
  /\ dpc' = [dpc EXCEPT ![p] =
               IF update_service_returns(UnitsOf(dname[p]), ok)
                 THEN "d_remove" ELSE "d_record"]
  /\ UNCHANGED <<backendVars, createVars, dname, darn, dresp, jobVars,
                 sideVars>>

DeleteScale(p) == \E ok \in BOOLEAN : DeleteScaleStep(p, ok)

\* delete_ecs_service lines 143-162: delete_service(force=True) removes the
\* unit or raises
DeleteRemoveStep(p, ok) ==
  /\ dpc[p] = "d_remove"
  /\ services' = IF ok THEN services \ UnitsOf(dname[p]) ELSE services
  /\ dpc' = [dpc EXCEPT ![p] = "d_record"]
  /\ UNCHANGED <<endpointTable, scalableTargets, scalingPolicies, createVars,
                 dname, darn, dresp, jobVars, sideVars>>

DeleteRemove(p) == \E ok \in BOOLEAN : DeleteRemoveStep(p, ok)

\* a handler that answers a failed record delete with 500
DeleteRecordStep_FailureIs500(p, ok) ==
  /\ dpc[p] = "d_record"
  /\ endpointTable' = IF ok THEN delete_item(endpointTable, dname[p])
                            ELSE endpointTable
  /\ DeleteReturn(p, IF ok THEN 200 ELSE 500)
  /\ UNCHANGED <<services, scalableTargets, scalingPolicies, createVars, jobVars,
                 sideVars>>

\* lines 226-262 with EndpointStore.delete_endpoint (211-234): delete_item,
\* ok telling whether it went through; the store reports a failure as False,
\* which is not looked at; 200
DeleteRecordStep(p, ok) ==
  /\ dpc[p] = "d_record"
  /\ endpointTable' = IF ok THEN delete_item(endpointTable, dname[p])
                            ELSE endpointTable
  /\ DeleteReturn(p, 200)
  /\ UNCHANGED <<services, scalableTargets, scalingPolicies, createVars, jobVars,
                 sideVars>>

DeleteRecord(p) == \E ok \in BOOLEAN : DeleteRecordStep(p, ok)

\* a crash that first marks the record of the name failed
CreateCrash_MarkFailed(p) ==
  /\ cpc[p] \in {"c_model", "c_put", "c_launch", "c_autoscale", "c_update",
                 "c_fail"}
  /\ cpc' = [cpc EXCEPT ![p] = "crashed"]
  /\ endpointTable' =
       IF cname[p] \in DOMAIN endpointTable
         THEN update_endpoint_status(endpointTable, cname[p], "failed", <<>>)
         ELSE endpointTable
  /\ UNCHANGED createServiceCalls
  /\ UNCHANGED <<services, scalableTargets, scalingPolicies, cname, cjob, csvc,
                 cas, cresp, racing, deleteVars, jobVars, sideVars>>

\* the invocation ends between two calls of lines 327-458 without reaching a
\* return (the runtime stops it: timeout, out of memory): no except branch
\* runs and nothing is written; cname and csvc keep what the invocation had
\* reached
CreateCrash(p) ==
  /\ cpc[p] \in {"c_model", "c_put", "c_launch", "c_autoscale", "c_update",
                 "c_fail"}
  /\ cpc' = [cpc EXCEPT ![p] = "crashed"]
  /\ UNCHANGED createServiceCalls
  /\ UNCHANGED <<backendVars, cname, cjob, csvc, cas, cresp, racing,
                 deleteVars, jobVars, sideVars>>

CreateNext ==
  \E p \in CreateProcs :
    \/ CreateInvalid(p)
    \/ CreateCheck(p)
    \/ CreateModel(p)
    \/ CreatePut(p)
    \/ CreateLaunch(p)
    \/ CreateAutoscale(p)
    \/ CreateUpdate(p)
    \/ CreateFail(p)

DeleteNext ==
  \E p \in DeleteProcs :
    \/ DeleteInvalid(p)
    \/ DeleteGet(p)
    \/ DeleteAutoscale(p)
    \/ DeleteScale(p)
    \/ DeleteRemove(p)
    \/ DeleteRecord(p)

EndpointNext == CreateNext \/ DeleteNext

(* ===================== properties of the endpoint side ================= *)
\* a create- or delete-endpoint invocation for name n is in flight
EndpointInFlight(n) ==
  \/ \E p \in CreateProcs : cname[p] = n /\ cpc[p] \notin {"idle", "done"}
  \/ \E p \in DeleteProcs : dname[p] = n /\ dpc[p] \notin {"idle", "done"}

\* the stored status of name n, "none" without a record or a status
StatusOf(table, n) ==
  IF n \in DOMAIN table /\ "status" \in DOMAIN table[n]
    THEN table[n].status ELSE "none"

\* C5 (as claimed): a Create Endpoint call whose name has a stored record at
\* the time of its existence check returns 409, invokes neither the launcher
\* nor the autoscaling configurator and leaves the record unchanged.
C5_ExistingNameYields409 ==
  [][\A p \in CreateProcs, n \in EndpointNames, job \in RequestedJobIds,
        ok \in BOOLEAN :
       (CreateCheckStep(p, n, job, ok) /\ n \in DOMAIN endpointTable) =>
          /\ cresp'[p].code = 409
          /\ cpc'[p] = "done"
          /\ UNCHANGED backendVars]_vars

\* C5 (amended): a Create Endpoint call whose existence check returns a
\* stored record returns 409; when the lookup of a stored record raises, the
\* call returns 500; in both cases the call ends there, so it invokes neither
\* the launcher nor the autoscaling configurator, and it leaves the record
\* (and the scheduler and autoscaling state) unchanged.
C5_ExistingNameYields409Or500 ==
  [][\A p \in CreateProcs, n \in EndpointNames, job \in RequestedJobIds,
        ok \in BOOLEAN :
       (CreateCheckStep(p, n, job, ok) /\ n \in DOMAIN endpointTable) =>
          /\ cresp'[p].code = (IF ok THEN 409 ELSE 500)
          /\ ok => cresp'[p].body = ExistsBody(n)
          /\ cpc'[p] = "done"
          /\ UNCHANGED backendVars]_vars

\* C5 witness: a create has returned 409 for a name whose record is stored
C5_Witness ==
  \E p \in CreateProcs, n \in EndpointNames :
    /\ cpc[p] = "done"
    /\ cresp[p] = EndpointResponse(409, ExistsBody(n))
    /\ n \in DOMAIN endpointTable

\* C6: a Create Endpoint call that reaches the model check while its derived
\* model path has no object returns 404, writes no endpoint record and
\* launches no compute unit (it has launched none before the check either);
\* when the name had no record, a following Get Endpoint Status of the name
\* answers 404.
C6_MissingModelYields404 ==
  /\ [](\A p \in CreateProcs :
          cpc[p] \in {"c_model", "c_put"} =>
             /\ csvc[p] = Empty
             /\ ServiceArn(cname[p], p) \notin services)
  /\ [][\A p \in CreateProcs :
          (cpc[p] = "c_model" /\ cpc'[p] # "c_model"
             /\ ModelKey(cjob[p]) \notin objectStore) =>
             /\ cresp'[p] = EndpointResponse(404,
                              ModelNotFoundBody(ModelKey(cjob[p])))
             /\ cpc'[p] = "done"
             /\ UNCHANGED backendVars
             /\ cname[p] \notin DOMAIN endpointTable =>
                  get_endpoint_status(endpointTable', cname[p], TRUE) = 404]_vars

\* C6 witness: a create has returned 404 for a job whose model path has no
\* object, and there is neither a record nor a compute unit
C6_Witness ==
  \E p \in CreateProcs, job \in RequestedJobIds :
    /\ cpc[p] = "done"
    /\ cresp[p] = EndpointResponse(404, ModelNotFoundBody(ModelKey(job)))
    /\ ModelKey(job) \notin objectStore
    /\ endpointTable = <<>>
    /\ services = {}

\* C7: with no handler in flight for an endpoint name, a persistent compute
\* unit exists for the name only if an endpoint record exists for it.
C7_NoOrphanedComputeUnit ==
  \A n \in EndpointNames :
    (~EndpointInFlight(n) /\ UnitsOf(n) # {}) => n \in DOMAIN endpointTable

\* C8: the persistent launcher is invoked only after the invocation's record
\* write succeeded, and that write stores status creating; if the record
\* create fails the handler returns 500 and never invokes the launcher.
C8_LaunchOnlyAfterRecord ==
  [][\A p \in CreateProcs :
       /\ (cpc'[p] = "c_launch" /\ cpc[p] # "c_launch") =>
            /\ cpc[p] = "c_put"
            /\ StatusOf(endpointTable', cname[p]) = "creating"
            /\ services' = services
       /\ (cpc'[p] \in {"c_autoscale", "c_fail"} /\ cpc[p] # cpc'[p]) =>
            cpc[p] = "c_launch"
       /\ \A n \in EndpointNames :
            (ServiceArn(n, p) \in services' /\ ServiceArn(n, p) \notin services) =>
               cpc[p] = "c_launch" /\ cname[p] = n
       /\ (cpc[p] = "c_put" /\ cpc'[p] \notin {"c_put", "c_launch"}) =>
            /\ cpc'[p] = "done"
            /\ cresp'[p].code = 500
            /\ UNCHANGED backendVars]_vars

\* C8 witness: one create has launched after its write, another has
\* returned 500 for its failed write
C8_Witness ==
  \E p, q \in CreateProcs :
    /\ cpc[p] = "c_autoscale"
    /\ ServiceArn(cname[p], p) \in services
    /\ cpc[q] = "done"
    /\ cresp[q] = EndpointResponse(500, DatabaseErrorBody)

\* C9: the record store applies no write-if-absent condition, so a create
\* that passed the existence check can always still write its record, also
\* over a record written meanwhile, and then launch: two concurrent creates
\* of one name can both pass the check before either writes and both launch.
C9_CreateNotConditional ==
  \A p \in CreateProcs :
    /\ cpc[p] = "c_put" =>
         ENABLED (/\ CreatePut(p)
                  /\ cpc'[p] = "c_launch"
                  /\ endpointTable'[cname[p]] = EndpointItem(cname[p], cjob[p]))
    /\ cpc[p] = "c_launch" =>
         ENABLED (CreateLaunch(p) /\ ServiceArn(cname[p], p) \in services')

\* C9 witness: two creates of one name passed the check before either wrote
\* and both launched a compute unit
C9_Witness ==
  \E p, q \in CreateProcs :
    /\ p # q
    /\ cname[p] = cname[q]
    /\ q \in racing[p]
    /\ {ServiceArn(cname[p], p), ServiceArn(cname[q], q)} \subseteq services

CreateReturns200(p) ==
  cpc[p] # "done" /\ cpc'[p] = "done" /\ cresp'[p].code = 200

\* C11: whenever Create Endpoint returns 200 with status active, the stored
\* record of the name has status active and carries the service_arn and the
\* endpoint_url of the response.
C11_ActiveResponseMatchesRecord ==
  [][\A p \in CreateProcs :
       (CreateReturns200(p) /\ cresp'[p].body.status = "active") =>
          LET n == cresp'[p].body.endpoint_name
          IN /\ StatusOf(endpointTable', n) = "active"
             /\ endpointTable'[n].service_arn = cresp'[p].body.service_arn
             /\ endpointTable'[n].endpoint_url = cresp'[p].body.endpoint_url]_vars

\* C12: when the launch succeeded, whatever the autoscaling configurator
\* did, Create Endpoint returns 200, the record of the name becomes active,
\* and its autoscaling_enabled field is true exactly when the configurator
\* reported success (false when it failed at any step).
C12_AutoscalingFlagFollowsConfigurator ==
  [][\A p \in CreateProcs :
       (cpc[p] = "c_update" /\ cpc'[p] # "c_update") =>
          /\ cpc'[p] = "done"
          /\ cresp'[p].code = 200
          /\ StatusOf(endpointTable', cname[p]) = "active"
          /\ "autoscaling_enabled" \in DOMAIN endpointTable'[cname[p]]
          /\ endpointTable'[cname[p]].autoscaling_enabled = cas[p]]_vars

\* the service handle stored with name n, Empty without a record or a handle
ServiceArnOf(table, n) ==
  IF n \in DOMAIN table /\ "service_arn" \in DOMAIN table[n]
    THEN table[n].service_arn ELSE Empty

\* C13 (as claimed): Delete Endpoint on a name with no record returns 404
\* and changes neither the scheduler nor the store; on a record with an
\* empty service_arn it goes straight to the record delete, after which the
\* record is gone and 200 is returned.
C13_AbsentYields404EmptyArnDeletes ==
  [][\A p \in DeleteProcs, n \in EndpointNames, ok \in BOOLEAN :
       /\ (DeleteGetStep(p, n, ok) /\ n \notin DOMAIN endpointTable) =>
             /\ dpc'[p] = "done" /\ dresp'[p] = 404
             /\ UNCHANGED backendVars
       /\ (DeleteGetStep(p, n, ok) /\ n \in DOMAIN endpointTable
             /\ ServiceArnOf(endpointTable, n) = Empty) =>
             /\ dpc'[p] = "d_record"
             /\ UNCHANGED backendVars
       /\ (DeleteRecordStep(p, ok) /\ darn[p] = Empty) =>
             /\ dname[p] \notin DOMAIN endpointTable'
             /\ dpc'[p] = "done" /\ dresp'[p] = 200]_vars

\* C13 (amended): Delete Endpoint on a name with no record returns 404 when
\* the lookup returns and 500 when it raises, and changes neither the
\* scheduler nor the store; on a record with an empty service_arn it goes
\* straight to the record delete (no invocation without a handle is ever in
\* the autoscaling or compute teardown), issues the delete, which removes
\* the record when it succeeds and leaves the table as it was when it
\* fails, and returns 200.
C13_AbsentYields404Or500EmptyArnSkips ==
  /\ [](\A p \in DeleteProcs :
          dpc[p] \in {"d_autoscale", "d_scale", "d_remove"} => darn[p] # Empty)
  /\ [][\A p \in DeleteProcs, n \in EndpointNames, ok \in BOOLEAN :
          /\ (DeleteGetStep(p, n, ok) /\ n \notin DOMAIN endpointTable) =>
                /\ dpc'[p] = "done"
                /\ dresp'[p] = (IF ok THEN 404 ELSE 500)
                /\ UNCHANGED backendVars
          /\ (DeleteGetStep(p, n, TRUE) /\ n \in DOMAIN endpointTable
                /\ ServiceArnOf(endpointTable, n) = Empty) =>
                /\ dpc'[p] = "d_record"
                /\ UNCHANGED backendVars
          /\ (DeleteRecordStep(p, ok) /\ darn[p] = Empty) =>
                /\ (IF ok THEN dname[p] \notin DOMAIN endpointTable'
                          ELSE endpointTable' = endpointTable)
                /\ UNCHANGED <<services, scalableTargets, scalingPolicies>>
                /\ dpc'[p] = "done" /\ dresp'[p] = 200]_vars

\* C13 witness: a delete found a record without a service handle and stands
\* before the record delete, no teardown step taken
C13_Witness ==
  \E p \in DeleteProcs :
    /\ dpc[p] = "d_record"
    /\ darn[p] = Empty
    /\ dname[p] \in DOMAIN endpointTable
    /\ ServiceArnOf(endpointTable, dname[p]) = Empty

\* C14: for a record that has a service handle, Delete Endpoint first
\* disables autoscaling, then terminates the compute unit (scale to 0, then
\* remove), then issues the record delete and returns 200: whatever the
\* autoscaling disable did, the compute termination is attempted next;
\* whatever either did, the record delete comes next and is the step that
\* returns; and autoscaling state, compute units and records are taken away
\* by a delete only in the steps of that order.
C14_DeleteOrder ==
  [][/\ \A p \in DeleteProcs, n \in EndpointNames :
          (DeleteGetStep(p, n, TRUE) /\ ServiceArnOf(endpointTable, n) # Empty) =>
             dpc'[p] = "d_autoscale"
     /\ \A p \in DeleteProcs :
          /\ (dpc[p] = "d_autoscale" /\ dpc'[p] # "d_autoscale") =>
                /\ dpc'[p] = "d_scale"
                /\ services' = services /\ endpointTable' = endpointTable
          /\ (dpc[p] = "d_scale" /\ dpc'[p] # "d_scale") =>
                /\ dpc'[p] \in {"d_remove", "d_record"}
                /\ UNCHANGED backendVars
          /\ (dpc[p] = "d_remove" /\ dpc'[p] # "d_remove") =>
                /\ dpc'[p] = "d_record"
                /\ endpointTable' = endpointTable
          /\ (dpc[p] = "d_record" /\ dpc'[p] # "d_record") =>
                /\ dpc'[p] = "done" /\ dresp'[p] = 200
                /\ services' = services
     /\ (scalableTargets' \ scalableTargets = {} /\ scalableTargets' # scalableTargets) =>
          \E p \in DeleteProcs : dpc[p] = "d_autoscale" /\ dpc'[p] = "d_scale"
     /\ (services' \ services = {} /\ services' # services) =>
          \E p \in DeleteProcs : dpc[p] = "d_remove" /\ dpc'[p] = "d_record"
     /\ (DOMAIN endpointTable' # DOMAIN endpointTable
           /\ DOMAIN endpointTable' \subseteq DOMAIN endpointTable) =>
          \E p \in DeleteProcs : dpc[p] = "d_record" /\ dpc'[p] = "done"]_vars

\* C14 witness: a delete of an active endpoint has returned 200 with the
\* compute unit and the record gone although the autoscaling disable failed
\* (the scalable target is still registered)
C14_Witness ==
  \E p \in DeleteProcs, q \in CreateProcs, n \in EndpointNames :
    /\ dpc[p] = "done" /\ dresp[p] = 200
    /\ cresp[q].code = 200 /\ cresp[q].body.endpoint_name = n
    /\ n \notin DOMAIN endpointTable
    /\ UnitsOf(n) = {}
    /\ n \in scalableTargets

\* C15: when the store fails to delete the record, Delete Endpoint
\* compensates nothing and its outcome is the same: the handler returns 200,
\* the table is left as it was (the record remains stored) and the scheduler
\* and the autoscaling state are left as the teardown put them.
C15_FailedRecordDeleteStillSucceeds ==
  [][\A p \in DeleteProcs :
       DeleteRecordStep(p, FALSE) =>
          /\ dpc'[p] = "done" /\ dresp'[p] = 200
          /\ endpointTable' = endpointTable
          /\ (dname[p] \in DOMAIN endpointTable => dname[p] \in DOMAIN endpointTable')
          /\ services' = services
          /\ UnitsOf(dname[p]) = {h \in services' : h[2] = dname[p]}
          /\ scalableTargets' = scalableTargets
          /\ scalingPolicies' = scalingPolicies]_vars

\* C15 witness: a delete has returned 200, the compute unit of the name is
\* gone and its record, service handle included, is still stored
C15_Witness ==
  \E p \in DeleteProcs, n \in EndpointNames :
    /\ dpc[p] = "done" /\ dresp[p] = 200
    /\ ServiceArnOf(endpointTable, n) # Empty
    /\ UnitsOf(n) = {}

(* ------------------- get_job_status.lambda_handler --------------------- *)
\* event['pathParameters'] of a Get Job Status request: None, a mapping
\* without job_id, or a mapping with the job_id asked for
PathParameters ==
  {<<>>, [proxy |-> <<"jobs">>]} \cup {[job_id |-> id] : id \in JobIds}

\* get_job_status.lambda_handler response: status code and body
JobStatusResponse(code, body) == [code |-> code, body |-> body]

\* a handler that returns whatever the lookup gave, None included
get_job_status_NoneIs200(table, pathParameters, ok) ==
  IF pathParameters = <<>> \/ "job_id" \notin DOMAIN pathParameters
    THEN JobStatusResponse(400, ErrorBody(<<"Missing job_id parameter">>))
  ELSE IF ~ok
    THEN JobStatusResponse(500, [error |-> <<"Database error">>,
                                 message |-> <<"raised", "get_job">>])
  ELSE JobStatusResponse(200, get_item(table, pathParameters.job_id))

\* get_job_status.lambda_handler (59-155) with JobStore.get_job: one point
\* read, ok telling whether it returned; the handler changes nothing, so it
\* is the response as a function of the table read
get_job_status(table, pathParameters, ok) ==
  IF pathParameters = <<>> \/ "job_id" \notin DOMAIN pathParameters
    THEN JobStatusResponse(400, ErrorBody(<<"Missing job_id parameter">>))
  ELSE IF ~ok
    THEN JobStatusResponse(500, [error |-> <<"Database error">>,
                                 message |-> <<"raised", "get_job">>])
  ELSE IF get_item(table, pathParameters.job_id) = <<>>
    THEN JobStatusResponse(404, ErrorBody(<<"Job not found">>))
  ELSE JobStatusResponse(200, JobStatusBody(get_item(table,
                                                  pathParameters.job_id)))

\* the training unit started for invocation p has not reported yet
NotReported(pc) == pc \in {"t_run", "t_report_completed", "t_report_failed"}

\* the answer C16 promises for the job of invocation p: 200 with status
\* running, the task_arn the launcher returned to p, and job_name name
IsRunningAnswer(resp, p, name) ==
  /\ resp.code = 200
  /\ resp.body.status = "running"
  /\ "task_arn" \in DOMAIN resp.body
  /\ resp.body.task_arn = TaskArn(p)
  /\ resp.body.job_name = name

\* C16: for a valid submit-job request for which the launcher returns a
\* handle and the store update succeeds, a Get Job Status issued after the
\* submit has returned and before the training unit reports yields 200 with
\* status running, the task_arn the launcher returned and the submitted
\* job_name: it yields that at the return, and every step up to the report
\* of the training unit leaves the answer as it is.
C16_RunningVisibleAfterSubmit ==
  [][\A p \in SubmitProcs :
       /\ (SubmitUpdateStep(p, TRUE) /\ NotReported(tpc[p])) =>
             IsRunningAnswer(get_job_status(jobTable', [job_id |-> sjob[p]], TRUE),
                             p, sname[p])
       /\ (/\ spc[p] = "done" /\ NotReported(tpc[p]) /\ NotReported(tpc'[p])
           /\ get_job_status(jobTable, [job_id |-> tjob[p]], TRUE).code = 200
           /\ IsRunningAnswer(get_job_status(jobTable, [job_id |-> tjob[p]], TRUE),
                              p, jobTable[tjob[p]].job_name)) =>
             get_job_status(jobTable', [job_id |-> tjob[p]], TRUE) =
               get_job_status(jobTable, [job_id |-> tjob[p]], TRUE)]_vars

C18_InvalidRequestYields400 ==
  [][/\ \A p \in SubmitProcs, kind \in InvalidBodies :
          SubmitInvalidStep(p, kind) =>
             /\ sresp'[p].code = 400
             /\ UNCHANGED <<jobTable, objectStore, launched, tpc, tjob, tout>>
             /\ \A q \in SubmitProcs \ {p} : spc'[q] = spc[q] /\ sresp'[q] = sresp[q]
             /\ UNCHANGED endpointVars
     /\ \A p \in CreateProcs, kind \in InvalidBodies :
          CreateInvalidStep(p, kind) =>
             /\ cresp'[p].code = 400
             /\ UNCHANGED <<backendVars, deleteVars, jobVars>>
             /\ \A q \in CreateProcs \ {p} : cpc'[q] = cpc[q] /\ cresp'[q] = cresp[q]]_vars

\* the status codes the API answers with
StatusCodes == {200, 400, 404, 409, 500}

\* how far a handler invocation has come: every step takes it further
PcRank(pc) ==
  CASE pc = "idle" -> 0
    [] pc \in {"s_launch", "c_model", "d_autoscale"} -> 1
    [] pc \in {"s_update", "c_put", "d_scale"} -> 2
    [] pc \in {"c_launch", "d_remove"} -> 3
    [] pc \in {"c_autoscale", "c_fail", "d_record"} -> 4
    [] pc = "c_update" -> 5
    [] OTHER -> 6

\* C19: for every input and every combination of dependency failures, each
\* of the five handlers ends by returning a response with a status code
\* among 200, 400, 404, 409 and 500, and no exception escapes: a returned
\* response carries one of these codes, the two read-only handlers answer
\* every request with one of them, an invocation that has not returned can
\* always take its next step whatever its dependencies did, and every step
\* of an invocation takes it further towards its return.
C19_HandlersAlwaysRespond ==
  /\ [](/\ \A p \in SubmitProcs :
             /\ spc[p] = "done" => sresp[p].code \in StatusCodes
             /\ spc[p] \in {"s_launch", "s_update"} =>
                  ENABLED (SubmitLaunch(p) \/ SubmitUpdate(p))
        /\ \A p \in CreateProcs :
             /\ cpc[p] = "done" => cresp[p].code \in StatusCodes
             /\ cpc[p] \notin {"idle", "done"} =>
                  ENABLED (CreateModel(p) \/ CreatePut(p) \/ CreateLaunch(p)
                             \/ CreateAutoscale(p) \/ CreateUpdate(p) \/ CreateFail(p))
        /\ \A p \in DeleteProcs :
             /\ dpc[p] = "done" => dresp[p] \in StatusCodes
             /\ dpc[p] \notin {"idle", "done"} =>
                  ENABLED (DeleteAutoscale(p) \/ DeleteScale(p) \/ DeleteRemove(p)
                             \/ DeleteRecord(p))
        /\ \A pathParameters \in PathParameters, ok \in BOOLEAN :
             get_job_status(jobTable, pathParameters, ok).code \in StatusCodes
        /\ \A pathParameters \in EndpointPathParameters, ok \in BOOLEAN :
             get_endpoint_status_code(endpointTable, pathParameters, ok) \in StatusCodes)
  /\ [][/\ spc' = spc \/ \A p \in SubmitProcs :
             spc'[p] # spc[p] => PcRank(spc'[p]) > PcRank(spc[p])
        /\ cpc' = cpc \/ \A p \in CreateProcs :
             cpc'[p] # cpc[p] => PcRank(cpc'[p]) > PcRank(cpc[p])
        /\ dpc' = dpc \/ \A p \in DeleteProcs :
             dpc'[p] # dpc[p] => PcRank(dpc'[p]) > PcRank(dpc[p])]_vars

\* C19 witness: a create-endpoint whose launch failed has returned 500 and a
\* delete-endpoint of the record it left has returned 200
C19_Witness ==
  \E p \in CreateProcs, q \in DeleteProcs :
    /\ cpc[p] = "done" /\ cresp[p] = EndpointResponse(500, LaunchFailedBody)
    /\ dpc[q] = "done" /\ dresp[q] = 200

\* C20: no operation is retried: within one handler invocation the launcher
\* is called at most once, whatever the call's outcome: a submit-job
\* invocation has issued no run_task request before its launch step and one
\* after it, a create-endpoint invocation no create_service request before
\* its launch step and one after it.
C20_LauncherCalledAtMostOnce ==
  /\ \A p \in SubmitProcs :
       /\ runTaskCalls[p] <= 1
       /\ spc[p] \in {"idle", "s_launch"} => runTaskCalls[p] = 0
       /\ spc[p] = "s_update" => runTaskCalls[p] = 1
  /\ \A p \in CreateProcs :
       /\ createServiceCalls[p] <= 1
       /\ cpc[p] \in {"idle", "c_model", "c_put", "c_launch"} =>
            createServiceCalls[p] = 0
       /\ cpc[p] \in {"c_autoscale", "c_update", "c_fail"} =>
            createServiceCalls[p] = 1

\* C20 witness: a submit-job invocation whose one run_task request started
\* no task has returned, and another has been answered with a task
C20_Witness ==
  \E p, q \in SubmitProcs :
    /\ spc[p] = "done" /\ runTaskCalls[p] = 1 /\ tpc[p] = "none"
    /\ spc[q] = "done" /\ runTaskCalls[q] = 1 /\ tpc[q] # "none"

(* ============================ the two stores ============================ *)
\* JobStore.create_job(job_data): the id drawn at line 61 is returned after
\* put_item stored the item; an exception of put_item is raised again and
\* nothing is stored
StoreCreateStep(id, job_data, ok) ==
  /\ MayDraw(id)
  /\ job_data \in JobDataInputs
  /\ LET item == JobStoreItem(id, job_data)
     IN  IF ok /\ StorableItem(item)
           THEN jobTable' = put_item(jobTable, item.job_id, StoredItem(item))
           ELSE UNCHANGED jobTable
  /\ UNCHANGED <<objectStore, spc, sjob, sname, sarn, sresp, tpc, tjob, tout,
                 overwritten, launched, runTaskCalls, endpointVars, sideVars>>

StoreCreate ==
  \E id \in JobIds, job_data \in JobDataInputs, ok \in BOOLEAN :
    StoreCreateStep(id, job_data, ok)

\* JobStore.update_job_status(job_id, status, **kwargs): one update_item that
\* SETs the status and every kwarg
JobStore_update_job_status(table, id, status, kwargs) ==
  update_item(table, id, [job_id |-> id], kwargs @@ [status |-> status])

\* the bool update_job_status and update_endpoint_status return: True after
\* update_item returned, False from the except branch
UpdateResult(ok) == ok

\* status values and keyword arguments of the callers
UpdateStatuses == {"running"}

JobKwargs == {<<>>, [task_arn |-> TaskArn(1)]}

EndpointKwargs == {<<>>, [service_arn |-> ServiceArn(1, 1)]}

\* a JobStore.update_job_status call
StoreUpdateJobStep(id, status, kwargs, ok) ==
  /\ id \in JobIds /\ status \in UpdateStatuses /\ kwargs \in JobKwargs
  /\ jobTable' = IF ok
                    THEN JobStore_update_job_status(jobTable, id, status, kwargs)
                    ELSE jobTable
  /\ UNCHANGED <<objectStore, spc, sjob, sname, sarn, sresp, tpc, tjob, tout,
                 overwritten, launched, runTaskCalls, endpointVars, sideVars>>

StoreUpdateJob ==
  \E id \in JobIds, status \in UpdateStatuses, kwargs \in JobKwargs,
     ok \in BOOLEAN : StoreUpdateJobStep(id, status, kwargs, ok)

\* an EndpointStore.create_endpoint call: put_item of the new item
StoreCreateEndpoint ==
  /\ \E n \in EndpointNames, ok \in BOOLEAN :
       endpointTable' = IF ok THEN create_endpoint(endpointTable, n, OldJobId)
                              ELSE endpointTable
  /\ UNCHANGED <<jobVars, services, scalableTargets, scalingPolicies,
                 createVars, deleteVars, sideVars>>

\* an EndpointStore.update_endpoint_status call
StoreUpdateEndpointStep(n, status, kwargs, ok) ==
  /\ n \in EndpointNames /\ status \in UpdateStatuses
  /\ kwargs \in EndpointKwargs
  /\ endpointTable' =
       IF ok THEN update_endpoint_status(endpointTable, n, status, kwargs)
             ELSE endpointTable
  /\ UNCHANGED <<jobVars, services, scalableTargets, scalingPolicies,
                 createVars, deleteVars, sideVars>>

StoreUpdateEndpoint ==
  \E n \in EndpointNames, status \in UpdateStatuses,
     kwargs \in EndpointKwargs, ok \in BOOLEAN :
    StoreUpdateEndpointStep(n, status, kwargs, ok)

\* calls on the two stores by any caller; the tables are independent, so the
\* calls on one are explored while the other is empty
StoreNext ==
  \/ DOMAIN endpointTable = {} /\ StoreCreate
  \/ DOMAIN endpointTable = {} /\ StoreUpdateJob
  \/ DOMAIN jobTable = {} /\ StoreCreateEndpoint
  \/ DOMAIN jobTable = {} /\ StoreUpdateEndpoint

StoreSpec == Init /\ [][StoreNext]_vars

(* ======================== properties of the stores ===================== *)
\* a and b are the same value, numbers compared by their value whatever
\* numeric type carries them
RECURSIVE SameValue(_, _)
SameValue(a, b) ==
  IF a.type \in {"int", "float", "decimal"}
    THEN b.type \in {"int", "float", "decimal"}
         /\ DecimalStr(a.v) = DecimalStr(b.v)
  ELSE IF a.type \in {"dict", "list"}
    THEN /\ b.type = a.type
         /\ DOMAIN b.v = DOMAIN a.v
         /\ \A k \in DOMAIN a.v : SameValue(a.v[k], b.v[k])
  ELSE a = b

\* the job_data of a submit-job request is stored under id by this step
SubmitStored(id, job_data) ==
  /\ job_data \in SubmitJobData
  /\ StoreCreateStep(id, job_data, TRUE)
  /\ StorableItem(JobStoreItem(id, job_data))

\* C21: for every hyperparameter mapping with numeric values (floats nested
\* in mappings and lists included), after the job is stored the job read back
\* by get_job and answered by Get Job Status carries the original numeric
\* values
C21_NumericRoundTrip ==
  [][\A id \in JobIds, job_data \in SubmitJobData :
       SubmitStored(id, job_data) =>
         LET answer == get_job_status(jobTable', [job_id |-> id], TRUE)
         IN  /\ answer.code = 200
             /\ SameValue(answer.body.hyperparameters,
                          job_data.hyperparameters)]_vars

\* what C22 promises of one status update of the existing record key: after
\* a successful write the record has the status and the kwargs, its other
\* attributes and all other records are as before, and the call returns
\* true; after a failed write the table is as before and the call returns
\* false
UpdateFrame(old, new, key, status, kwargs, ok) ==
  IF ok
    THEN /\ UpdateResult(ok) = TRUE
         /\ DOMAIN new = DOMAIN old
         /\ new[key].status = status
         /\ \A k \in DOMAIN kwargs : new[key][k] = kwargs[k]
         /\ DOMAIN new[key] = DOMAIN old[key] \cup DOMAIN kwargs \cup {"status"}
         /\ \A k \in DOMAIN old[key] \ (DOMAIN kwargs \cup {"status"}) :
              new[key][k] = old[key][k]
         /\ \A other \in DOMAIN old \ {key} : new[other] = old[other]
    ELSE /\ UpdateResult(ok) = FALSE
         /\ new = old

\* C22: a status update of an existing job or endpoint record sets the status
\* and exactly the named extra fields, leaves every other attribute of the
\* record and every other record unchanged and returns true; when the write
\* fails it returns false and no record changes
C22_StatusUpdateFrame ==
  [][/\ \A id \in DOMAIN jobTable, status \in UpdateStatuses,
           kwargs \in JobKwargs, ok \in BOOLEAN :
          StoreUpdateJobStep(id, status, kwargs, ok) =>
            /\ UpdateFrame(jobTable, jobTable', id, status, kwargs, ok)
            /\ endpointTable' = endpointTable
     /\ \A n \in DOMAIN endpointTable, status \in UpdateStatuses,
           kwargs \in EndpointKwargs, ok \in BOOLEAN :
          StoreUpdateEndpointStep(n, status, kwargs, ok) =>
            /\ UpdateFrame(endpointTable, endpointTable', n, status, kwargs, ok)
            /\ jobTable' = jobTable]_vars

\* a created job record was updated to running with a task_arn, and its
\* job_name is still there
C22_Witness ==
  \E id \in DOMAIN jobTable :
    /\ jobTable[id].status = "running"
    /\ DOMAIN jobTable[id] =
         {"job_id", "status", "created_at", "job_name", "task_arn"}
    /\ jobTable[id].task_arn = TaskArn(1)

\* C23: for every job_data mapping passed to create_job, the stored record
\* is keyed by the returned job_id, has status pending and a created_at
\* value, and get_job of the returned id right after returns that record
C23_CreateJobStoresPendingRecord ==
  [][\A id \in JobIds, job_data \in JobDataInputs :
       (StoreCreateStep(id, job_data, TRUE)
        /\ StorableItem(JobStoreItem(id, job_data))) =>
         LET job == get_item(jobTable', id)
         IN  /\ job # <<>>
             /\ job = StoredItem(JobStoreItem(id, job_data))
             /\ job.job_id = id
             /\ job.status = "pending"
             /\ "created_at" \in DOMAIN job]_vars

(* ================== properties of the handlers' order ================== *)
\* C24: in every submit-job execution the launcher is invoked only after the
\* job record has been persisted; when create_job fails the handler returns
\* 500 and the launcher is never invoked in that execution
C24_LaunchOnlyAfterPersist ==
  /\ [](\A p \in SubmitProcs :
          (spc[p] = "done" /\ sresp[p].code = 500) => runTaskCalls[p] = 0)
  /\ [][\A p \in SubmitProcs :
          /\ runTaskCalls'[p] # runTaskCalls[p] =>
               /\ sjob[p] \in DOMAIN jobTable
               /\ jobTable[sjob[p]].job_id = sjob[p]
          /\ SubmitCreateStep(p, FALSE) =>
               /\ spc'[p] = "done"
               /\ sresp'[p].code = 500
               /\ runTaskCalls'[p] = 0]_vars

\* one execution invoked the launcher, another ended with 500 without it
C24_Witness ==
  \E p, q \in SubmitProcs :
    /\ runTaskCalls[p] = 1
    /\ spc[q] = "done" /\ sresp[q].code = 500 /\ runTaskCalls[q] = 0

\* C25: when the scalable target is registered and the policy attach then
\* fails, enable returns false and the target stays registered; when the
\* registration fails, no policy is attached and enable returns false
C25_AutoscalingEnableNoRollback ==
  [][\A p \in CreateProcs, registered \in BOOLEAN, attached \in BOOLEAN :
       CreateAutoscaleStep(p, registered, attached) =>
         /\ (registered /\ ~attached) =>
              /\ cas'[p] = FALSE
              /\ cname[p] \in scalableTargets'
              /\ scalingPolicies' = scalingPolicies
         /\ ~registered =>
              /\ ~attached
              /\ cas'[p] = FALSE
              /\ scalingPolicies' = scalingPolicies
              /\ scalableTargets' = scalableTargets]_vars

\* the target of an endpoint is registered without a policy and enable
\* returned false
C25_Witness ==
  \E p \in CreateProcs :
    /\ cpc[p] = "c_update"
    /\ cas[p] = FALSE
    /\ cname[p] \in scalableTargets
    /\ cname[p] \notin scalingPolicies

\* C26: disable always attempts the full teardown: every listed policy gets
\* a deletion attempt even when the deletion of an earlier one fails, and
\* the deregistration of the scalable target is attempted (and can go
\* through) whatever the listing and the deletions did
C26_FullTeardownAttempted ==
  /\ [](\A p \in DeleteProcs :
          dpc[p] = "d_autoscale" =>
            \A listed \in BOOLEAN, policies \in AllPolicyLists,
               nok \in 0..MaxPolicies :
              (/\ policies \in PolicyLists(dname[p], dname[p] \in scalingPolicies)
               /\ nok <= Len(policies)) =>
                ENABLED (/\ DeleteAutoscaleStep(p, listed, policies, nok, TRUE)
                         /\ dname[p] \notin scalableTargets'))
  /\ [][\A p \in DeleteProcs, listed \in BOOLEAN, policies \in AllPolicyLists,
           nok \in 0..MaxPolicies, deregistered \in BOOLEAN :
          (DeleteAutoscaleStep(p, listed, policies, nok, deregistered)
           /\ listed) =>
            AttemptedDeletions(policies, nok)
              = {policies[i] : i \in 1..Len(policies)}]_vars

\* the teardown of a Step was fully clean: the listing, every policy deletion
\* and the deregistration went through
FullyClean(listed, policies, nok, deregistered) ==
  listed /\ nok = Len(policies) /\ deregistered

\* C27: disable returns true exactly when the teardown was fully clean
\* (every policy deletion and the deregistration succeeded) and false when
\* it was partial
C27_TrueIffFullyClean ==
  [][\A p \in DeleteProcs, listed \in BOOLEAN, policies \in AllPolicyLists,
        nok \in 0..MaxPolicies, deregistered \in BOOLEAN :
       DeleteAutoscaleStep(p, listed, policies, nok, deregistered) =>
         (deregister_autoscaling_result(listed, policies, nok, deregistered)
            <=> FullyClean(listed, policies, nok, deregistered))]_vars

\* C28: terminating a persistent compute unit issues the scale-to-zero
\* request before the removal request, and reports success when the unit is
\* already gone at the scheduler
C28_ScaleThenRemoveGoneIsSuccess ==
  [][\A p \in DeleteProcs :
       /\ dpc'[p] = "d_remove" => dpc[p] = "d_scale"
       /\ (\E ok \in BOOLEAN : DeleteRemoveStep(p, ok)) => dpc[p] = "d_remove"
       /\ \A ok \in BOOLEAN :
            (DeleteScaleStep(p, ok) /\ UnitsOf(dname[p]) = {}) =>
              delete_ecs_service_result(
                update_service_returns(UnitsOf(dname[p]), ok), TRUE)]_vars

(* ================== properties of the launcher functions =============== *)
\* C29: the launcher functions never raise: whatever the scheduler client
\* does inside start_ecs_task, create_ecs_service or delete_ecs_service, the
\* handler goes on with a handle, or with None or False, and never answers
\* from its outer except; a handle is returned only together with a started
\* task or service
C29_LaunchersNeverRaise ==
  [][/\ runTaskCalls' = runTaskCalls \/
          \A p \in SubmitProcs :
            runTaskCalls'[p] # runTaskCalls[p] =>
              \/ /\ spc'[p] = "s_update"
                 /\ sarn'[p] = TaskArn(p)
                 /\ <<sjob[p], sarn'[p]>> \in launched'
              \/ /\ spc'[p] = "done"
                 /\ sresp'[p].code = 200
                 /\ sarn'[p] = NoArn
                 /\ launched' = launched
     /\ createServiceCalls' = createServiceCalls \/
          \A p \in CreateProcs :
            createServiceCalls'[p] # createServiceCalls[p] =>
              \/ /\ cpc'[p] = "c_autoscale"
                 /\ csvc'[p] # Empty
                 /\ csvc'[p] \in services'
              \/ /\ cpc'[p] = "c_fail"
                 /\ csvc'[p] = Empty
                 /\ services' = services
     /\ dpc' = dpc \/
          \A p \in DeleteProcs :
            dpc[p] \in {"d_autoscale", "d_scale", "d_remove"} =>
              dpc'[p] \in {dpc[p], "d_scale", "d_remove", "d_record"}]_vars

\* create_service gave no handle to an invocation, which goes on to mark the
\* endpoint failed
C29_Witness ==
  \E p \in CreateProcs :
    cpc[p] = "c_fail" /\ createServiceCalls[p] = 1 /\ csvc[p] = Empty

\* C30: Create Endpoint answers 404 only when the model artifact is absent
\* from the object store; when the lookup itself fails the response is 500,
\* not 404
C30_LookupFailureIs500 ==
  [][\A p \in CreateProcs, ok \in BOOLEAN :
       CreateModelStep(p, ok) =>
         /\ (cpc'[p] = "done" /\ cresp'[p].code = 404) =>
              ModelKey(cjob[p]) \notin objectStore
         /\ ~ok => (cpc'[p] = "done" /\ cresp'[p].code = 500)]_vars

(* ===================== teardown of an earlier endpoint ================= *)
\* the state earlier invocations left behind: endpoint 1 was created by an
\* invocation 0 (record active with its service_arn); its unit is still
\* there, or an earlier Delete Endpoint removed it and then failed to delete
\* the record; its scalable target and policy are there or not
TeardownInit ==
  /\ JobInit
  /\ EndpointIdle
  /\ environ = DeployedEnviron
  /\ \E attached \in BOOLEAN :
       /\ endpointTable =
            update_endpoint_status(
              create_endpoint(<<>>, 1, OldJobId), 1, "active",
              [service_arn |-> ServiceArn(1, 0),
               endpoint_url |-> EndpointUrl(1),
               autoscaling_enabled |-> attached])
       /\ scalingPolicies \in {{}, IF attached THEN {1} ELSE {}}
  /\ services \in {{ServiceArn(1, 0)}, {}}
  /\ scalableTargets \in {scalingPolicies, {1}}

TeardownSpec == TeardownInit /\ [][EndpointNext]_vars

(* ====================== crashes of Create Endpoint ===================== *)
\* the endpoint side with create-endpoint invocations that may crash
CrashNext == EndpointNext \/ \E p \in CreateProcs : CreateCrash(p)

CrashSpec == Init /\ [][CrashNext]_vars

\* a create-endpoint invocation other than p is working on name n
OtherCreateRunning(p, n) ==
  \E q \in CreateProcs \ {p} :
    cname[q] = n /\ cpc[q] \notin {"idle", "done", "crashed"}

\* no invocation other than p has written anything: each is idle or was
\* answered with 400, 404 or 409
OthersWroteNothing(p) ==
  /\ \A q \in CreateProcs \ {p} :
       \/ cpc[q] = "idle"
       \/ cpc[q] = "done" /\ cresp[q].code \in {400, 404, 409}
  /\ \A q \in DeleteProcs :
       \/ dpc[q] = "idle"
       \/ dpc[q] = "done" /\ dresp[q] \in {400, 404}

\* the record stored under name n, <<>> when there is none
RecordOf(table, n) == IF n \in DOMAIN table THEN table[n] ELSE <<>>

\* C31: there is no reconciliation: a Create Endpoint invocation that
\* crashes after the launch succeeded and before the record update writes
\* nothing, so the record stays creating while its compute unit exists, and
\* from then on the record changes only by a Delete Endpoint removing it
C31_NoReconciliation ==
  [][\A p \in CreateProcs :
       /\ (cpc[p] \in {"c_autoscale", "c_update"} /\ cpc'[p] = "crashed") =>
            /\ endpointTable' = endpointTable
            /\ services' = services
            /\ OthersWroteNothing(p) =>
                 /\ StatusOf(endpointTable', cname[p]) = "creating"
                 /\ csvc[p] \in services'
       /\ (/\ cpc[p] = "crashed"
           /\ csvc[p] # Empty
           /\ StatusOf(endpointTable, cname[p]) = "creating"
           /\ ~OtherCreateRunning(p, cname[p])
           /\ RecordOf(endpointTable', cname[p]) #
                RecordOf(endpointTable, cname[p])) =>
            \E q \in DeleteProcs :
              /\ dname[q] = cname[p]
              /\ DeleteRecordStep(q, TRUE)
              /\ cname[p] \notin DOMAIN endpointTable']_vars

\* an invocation crashed after its launch: the record is still creating, the
\* unit runs, and a later Create Endpoint of the name was answered with 409
C31_Witness ==
  \E p \in CreateProcs, q \in CreateProcs :
    /\ cpc[p] = "crashed" /\ csvc[p] \in services
    /\ StatusOf(endpointTable, cname[p]) = "creating"
    /\ cpc[q] = "done" /\ cresp[q] = EndpointResponse(409, ExistsBody(cname[p]))

\* a create-endpoint invocation is working on name n
CreateRunning(n) ==
  \E p \in CreateProcs : cname[p] = n /\ cpc[p] \notin {"idle", "done"}

\* C32: whenever no Create Endpoint invocation of a name is in flight (and
\* none has crashed), the record of the name, if present, has status active
\* or failed, whatever the outcome of the status update was
C32_SettledRecordIsActiveOrFailed ==
  \A n \in EndpointNames :
    (n \in DOMAIN endpointTable /\ ~CreateRunning(n)) =>
      StatusOf(endpointTable, n) \in {"active", "failed"}

\* C33: a record of a name that has none comes into being only by the
\* put of a Create Endpoint (after its existence check); the status update
\* of an invocation already in flight never brings a removed record back
C33_RemovedRecordStaysRemoved ==
  [][\A n \in EndpointNames :
       (n \notin DOMAIN endpointTable /\ n \in DOMAIN endpointTable') =>
         \E p \in CreateProcs :
           cname[p] = n /\ cpc[p] = "c_put" /\ cpc'[p] = "c_launch"]_vars

\* C34: the location where the training unit of a job uploads its model
\* (S3_OUTPUT, models/{job_name}, plus model.pkl) is the location that Create
\* Endpoint checks for the job's id (models/{job_id}/model.pkl)
C34_UploadLocationIsCheckedLocation ==
  \A p \in SubmitProcs :
    tpc[p] = "t_run" => ModelKey(tout[p]) = ModelKey(tjob[p])

\* C35: the training unit goes on to report completed only when its model
\* was uploaded (the object is in the store at S3_OUTPUT), and it reports
\* failed when a step of the run raised
C35_CompletedOnlyAfterUpload ==
  [][\A p \in SubmitProcs :
       (tpc[p] = "t_run" /\ tpc'[p] # "t_run") =>
         \/ tpc'[p] = "t_report_completed" /\ ModelKey(tout[p]) \in objectStore'
         \/ tpc'[p] = "t_report_failed"]_vars

(* ==================== the job side under fair scheduling ================ *)
\* a submit-job invocation that has created its record runs to its return
\* (handler.py 263-298), and a started training unit runs to its exit
\* (train.py 526-655): each of their steps is taken once it stays possible
JobFairness ==
  \A p \in SubmitProcs :
    /\ WF_vars(SubmitLaunch(p))
    /\ WF_vars(SubmitUpdate(p))
    /\ WF_vars(TrainRun(p))
    /\ WF_vars(TrainReport(p))

FairJobSpec == Init /\ [][JobNext]_vars /\ JobFairness

\* C36: liveness: from some point on, every job whose training unit was
\* started (launched only grows) has a record that holds completed or
\* failed, whatever the outcomes of the single store updates are
C36_LaunchedJobEndsTerminal ==
  <>[](\A j \in JobIds :
         (\E arn \in {TaskArn(p) : p \in SubmitProcs} : <<j, arn>> \in launched) =>
           /\ j \in DOMAIN jobTable
           /\ jobTable[j].status \in {"completed", "failed"})

(* ========================== the read handlers ========================== *)
\* list_endpoints(limit=100): Table.scan(Limit=limit)
ScanLimit == 100

\* the orders in which a scan may return the items of a table, as lists of
\* their keys, cut at the limit
ScanResults(table, limit) ==
  LET n == IF Cardinality(DOMAIN table) <= limit
             THEN Cardinality(DOMAIN table) ELSE limit
  IN  {q \in [1..n -> DOMAIN table] : \A i, j \in 1..n : q[i] = q[j] => i = j}

\* EndpointStore.list_endpoints: the scanned items in the order of the scan
list_endpoints(table, scanned) == [i \in DOMAIN scanned |-> table[scanned[i]]]

\* get_endpoint_status.convert_decimals on an endpoint item: every value with
\* a __float__ becomes a float, which a bool has (True -> 1.0); strings stay
convert_decimals(endpoint) ==
  [k \in DOMAIN endpoint |->
     IF k = "autoscaling_enabled"
       THEN FloatValue(IF endpoint[k] THEN "1.0" ELSE "0.0")
       ELSE endpoint[k]]

\* a list branch that reports the limit of the scan as the count
get_endpoint_status_response_CountIsLimit(table, pathParameters, ok, scanned) ==
  LET code == get_endpoint_status_code(table, pathParameters, ok)
      endpoints == [i \in DOMAIN scanned |->
                      convert_decimals(list_endpoints(table, scanned)[i])]
  IN  IF code = 404
        THEN [code |-> 404, body |-> ErrorBody(<<"Endpoint not found">>)]
      ELSE IF code # 200
        THEN [code |-> code, body |-> ErrorBody(<<"raised">>)]
      ELSE IF "endpoint_name" \notin DOMAIN pathParameters
        THEN [code |-> 200,
              body |-> [endpoints |-> endpoints, count |-> ScanLimit]]
      ELSE [code |-> 200,
            body |-> convert_decimals(
                       get_endpoint(table, pathParameters.endpoint_name))]

\* get_endpoint_status.lambda_handler (60-184): the response; the list branch
\* returns the converted items and len(endpoints), the lookup branch the
\* converted item, and the error branches a body with the error
get_endpoint_status_response(table, pathParameters, ok, scanned) ==
  LET code == get_endpoint_status_code(table, pathParameters, ok)
      endpoints == [i \in DOMAIN scanned |->
                      convert_decimals(list_endpoints(table, scanned)[i])]
  IN  IF code = 404
        THEN [code |-> 404, body |-> ErrorBody(<<"Endpoint not found">>)]
      ELSE IF code # 200
        THEN [code |-> code, body |-> ErrorBody(<<"raised">>)]
      ELSE IF "endpoint_name" \notin DOMAIN pathParameters
        THEN [code |-> 200,
              body |-> [endpoints |-> endpoints, count |-> Len(endpoints)]]
      ELSE [code |-> 200,
            body |-> convert_decimals(
                       get_endpoint(table, pathParameters.endpoint_name))]

\* one get_job_status invocation: get_job and the response, nothing written
GetJobStatusStep(pathParameters, ok) ==
  /\ pathParameters \in PathParameters
  /\ gresp' = ReadResponse("get_job_status",
                           get_job_status(jobTable, pathParameters, ok))
  /\ UNCHANGED <<jobVars, endpointVars, labelVars>>

GetJobStatus ==
  \E pathParameters \in PathParameters, ok \in BOOLEAN :
    GetJobStatusStep(pathParameters, ok)

\* one get_endpoint_status invocation: list_endpoints or get_endpoint and the
\* response, nothing written
GetEndpointStatusStep(pathParameters, ok, scanned) ==
  /\ pathParameters \in EndpointPathParameters
  /\ scanned \in ScanResults(endpointTable, ScanLimit)
  /\ gresp' = ReadResponse("get_endpoint_status",
                get_endpoint_status_response(endpointTable, pathParameters, ok,
                                             scanned))
  /\ UNCHANGED <<jobVars, endpointVars, labelVars>>

GetEndpointStatus ==
  \E pathParameters \in EndpointPathParameters, ok \in BOOLEAN :
    \E scanned \in ScanResults(endpointTable, ScanLimit) :
      GetEndpointStatusStep(pathParameters, ok, scanned)

ReadNext == GetJobStatus \/ GetEndpointStatus

\* the job tables earlier submit-job requests and training units leave
ReadJobTables ==
  {<<>>}
    \cup {create_job(<<>>, id, <<"name", 1>>) : id \in JobIds}
    \cup {update_job_status(create_job(<<>>, id, <<"name", 1>>), id, status) :
            id \in JobIds, status \in {"running", "completed", "failed"}}

\* the record of name n after a Create Endpoint that launched its unit
\* (active, with the handle) or that is still to launch it (creating)
ReadEndpointItem(n, active) ==
  IF active
    THEN update_endpoint_status(
           create_endpoint(<<>>, n, OldJobId), n, "active",
           [service_arn |-> ServiceArn(n, 0),
            endpoint_url |-> EndpointUrl(n),
            autoscaling_enabled |-> TRUE])[n]
    ELSE EndpointItem(n, OldJobId)

\* the states earlier requests can have left: no invocation running, some
\* jobs and endpoints stored, the units of the active endpoints running
ReadInit ==
  /\ jobTable \in ReadJobTables
  /\ objectStore = {ModelKey(OldJobId)}
  /\ spc = [p \in SubmitProcs |-> "idle"]
  /\ sjob = [p \in SubmitProcs |-> NoId]
  /\ sname = [p \in SubmitProcs |-> NoId]
  /\ sarn = [p \in SubmitProcs |-> NoArn]
  /\ sresp = [p \in SubmitProcs |-> Response(0, NoId)]
  /\ tpc = [p \in SubmitProcs |-> "none"]
  /\ tjob = [p \in SubmitProcs |-> NoId]
  /\ tout = [p \in SubmitProcs |-> NoId]
  /\ overwritten = FALSE
  /\ launched = {}
  /\ runTaskCalls = [p \in SubmitProcs |-> 0]
  /\ EndpointIdle
  /\ environ = DeployedEnviron
  /\ \E stored \in SUBSET EndpointNames :
       \E active \in SUBSET stored :
         /\ endpointTable =
              [n \in stored |-> ReadEndpointItem(n, n \in active)]
         /\ services = {ServiceArn(n, 0) : n \in active}
         /\ scalableTargets = active
         /\ scalingPolicies = active

ReadSpec == ReadInit /\ [][ReadNext]_vars

TargetGroupArns ==
  {TargetGroupArn(name, id) : name \in TargetGroupNames, id \in ArnIds}

LoadBalancerArns ==
  {LoadBalancerArn(name, id) : name \in LoadBalancerNames, id \in ArnIds}
    \cup {AppArn(name, id) : name \in LoadBalancerNames, id \in ArnIds}

\* the environments a deployment can give the function: each of the two
\* variables set to an ARN or left out, ALB_ARN also set to the empty string
Environs ==
  {tg @@ alb :
     tg \in {<<>>} \cup {[TARGET_GROUP_ARN |-> a] : a \in TargetGroupArns},
     alb \in {<<>>} \cup {[ALB_ARN |-> a] : a \in LoadBalancerArns \cup {<<>>}}}

\* setup_autoscaling(endpoint_name) (190-275): register_scalable_target, the
\* label, put_scaling_policy, all in one try whose except returns False;
\* registered and attached tell whether the two calls go through
SetupAutoscalingStep(n, registered, attached) ==
  /\ n \in EndpointNames
  /\ LET computed == resource_label(environ)
         passed == registered /\ ~computed.raised
     IN  /\ scalableTargets' = IF registered THEN scalableTargets \cup {n}
                                             ELSE scalableTargets
         /\ scalingPolicies' = IF passed /\ attached
                                 THEN scalingPolicies \cup {n}
                                 ELSE scalingPolicies
         /\ autoscaled' =
              AutoscaleCall(IF passed THEN computed.label ELSE <<>>,
                            IF passed /\ attached THEN "True" ELSE "False")
  /\ UNCHANGED <<jobVars, endpointTable, services, createVars, deleteVars,
                 readVars, environ>>

SetupAutoscaling ==
  \E n \in EndpointNames, registered \in BOOLEAN, attached \in BOOLEAN :
    SetupAutoscalingStep(n, registered, attached)

LabelInit ==
  /\ JobInit
  /\ EndpointIdle
  /\ environ \in Environs
  /\ endpointTable = <<>>
  /\ services = {}
  /\ scalableTargets = {}
  /\ scalingPolicies = {}

LabelSpec == LabelInit /\ [][SetupAutoscaling]_vars

\* the text s ends in the text t
EndsWith(s, t) ==
  Len(s) >= Len(t) /\ SubSeq(s, Len(s) - Len(t) + 1, Len(s)) = t

\* C38: with a target-group ARN ending in targetgroup/{tg-name}/{tg-id} the
\* label passed to put_scaling_policy is app/{lb-name}/{lb-id}/targetgroup/
\* {tg-name}/{tg-id} when the load-balancer ARN ends in app/{lb-name}/{lb-id},
\* and targetgroup/{tg-name}/{tg-id} when the load-balancer ARN is
\* unavailable, in which case the policy is attached and True is returned
C38_ResourceLabelDerivation ==
  [][\A n \in EndpointNames, attached \in BOOLEAN :
       SetupAutoscalingStep(n, TRUE, attached) =>
         \A tgn \in TargetGroupNames, tgi \in ArnIds :
           EndsWith(environ_get(environ, "TARGET_GROUP_ARN"),
                    <<"targetgroup", "/", tgn, "/", tgi>>) =>
             /\ \A lbn \in LoadBalancerNames, lbi \in ArnIds :
                  EndsWith(environ_get(environ, "ALB_ARN"),
                           <<"app", "/", lbn, "/", lbi>>) =>
                    autoscaled'.label =
                      <<"app", "/", lbn, "/", lbi, "/",
                        "targetgroup", "/", tgn, "/", tgi>>
             /\ environ_get(environ, "ALB_ARN") = <<>> =>
                  /\ autoscaled'.label = <<"targetgroup", "/", tgn, "/", tgi>>
                  /\ attached =>
                       n \in scalingPolicies' /\ autoscaled'.result = "True"]_vars

Next == JobNext \/ EndpointNext

\* the whole layer
Spec == Init /\ [][Next]_vars

\* the job side alone: submit-job invocations and their training units
JobSpec == Init /\ [][JobNext]_vars

\* the endpoint side alone: create- and delete-endpoint invocations
EndpointSpec == Init /\ [][EndpointNext]_vars

\* no request has reached the job API yet
JobSideIdle == \A p \in SubmitProcs : spc[p] = "idle"

\* no request has reached the endpoint API yet
EndpointSideIdle == \A p \in CreateProcs : cpc[p] = "idle" /\ dpc[p] = "idle"

\* the steps of the submit-job invocations alone, without the training units
\* they start
SubmitNext ==
  \E p \in SubmitProcs :
    \/ SubmitInvalid(p)
    \/ SubmitCreate(p)
    \/ SubmitLaunch(p)
    \/ SubmitUpdate(p)

\* every behaviour of the submit-job handler and every behaviour of the
\* endpoint side: the two sides share the bucket only, which the endpoint
\* side reads for the model of a job id, with or without an artifact
HandlerNext ==
  \/ EndpointSideIdle /\ SubmitNext
  \/ JobSideIdle /\ EndpointNext

HandlerSpec == Init /\ [][HandlerNext]_vars

====
